---- MODULE Spec2Model ----
(***************************************************************************)
(* Model of the amethyst dispatcher (amethyst_core/src/dispatcher.rs) and  *)
(* of the UI systems of amethyst_ui (layout.rs, blink.rs, resize.rs,       *)
(* drag.rs).                                                               *)
(*                                                                         *)
(* Spec       : DispatcherBuilder / Dispatcher (add_*, build, execute,     *)
(*              unload) driven by one caller.                              *)
(* LayoutSpec : UiTransformSystem runs over a small parent forest.         *)
(* BlinkSpec  : BlinkSystem runs and command-buffer flushes.               *)
(* ResizeSpec : ResizeSystem runs between UiResize and window changes;     *)
(*              ResizeFairSpec runs the system in every frame.             *)
(* DragSpec   : DragWidgetSystem runs between clicks, mouse moves and      *)
(*              Hidden changes.                                            *)
(***************************************************************************)
EXTENDS Integers, Sequences, FiniteSets, TLC

VARIABLES
    items,          \* DispatcherBuilder.items
    added,          \* number of add_* / flush calls made so far
    usedBundles,    \* bundle objects already moved into a builder
    dispatcher,     \* result of the latest build call: the Dispatcher, or none
    buildResult,    \* Result of the latest build call
    lastItems,      \* the builder's items when the latest build was called
    loadLog,        \* SystemBundle::load calls of the latest build, in call order
    unloadLog,      \* SystemBundle::unload calls made by Dispatcher::unload
    unloadResult,   \* Result of Dispatcher::unload
    resources,      \* Resources: the set of resource types present
    preResources,   \* Resources as they were when the latest build was called
    execPc,         \* 0: no execute call in progress; i > 0: running step i
    execLog,        \* <<step index, unit>> for every unit run by the latest execute
    executed,       \* TRUE once an execute call of this dispatcher has returned
    screen_dim,     \* ScreenDimensions resource: <<width, height>>
    screen_size,    \* UiTransformSystem.screen_size
    transforms,     \* the UiTransform component of every UI entity
    parent,         \* the Parent component of every UI entity
    preTransforms,  \* transforms as they were when the latest layout pass began
    runs,           \* layout passes since the inputs last changed (2: two or more)
    edits,          \* number of UiTransform modifications made from outside
    blinks,         \* the Blink component of every blinking entity
    hidden,         \* the entities that carry the Hidden marker
    commands,       \* the command buffer of BlinkSystem, not yet flushed
    blinkPc,        \* "flushed", or "updated" after a run whose commands wait
    blinkRuns,      \* 0 before the first BlinkSystem run, 1 after
    dimensions,     \* ScreenDimensions as ResizeSystem reads it
    resize_screen_size, \* ResizeSystem.screen_size
    ui_resize,      \* the entities that have a UiResize component
    has_transform,  \* the entities that have a UiTransform component
    channel,        \* UiResize component events the system's reader has not read
    local_modified, \* ResizeSystem.local_modified
    calls,          \* per entity, the calls of its function in the latest run
    callSize,       \* the size passed to the functions in the latest run
    owed,           \* entities whose UiResize was attached or changed, not called since
    lastRun,        \* the latest ResizeSystem run, until the world changes again
    record,         \* DragWidgetSystem.record: per entity, (first, prev) or none
    drag_local,     \* local_x and local_y of every draggable widget's UiTransform
    drag_scale_mode, \* scale_mode of every draggable widget's UiTransform
    draggable,      \* the entities that have a Draggable component
    drag_hidden,    \* the entities that carry Hidden
    drag_hidden_prop, \* the entities that carry HiddenPropagate
    mouse,          \* InputHandler::mouse_position
    ui_events,      \* UiEvents of the channel the system's reader has not read
    drag_out,       \* the events the latest DragWidgetSystem run wrote
    frame,          \* what the latest run started from, until the world changes
    frames,         \* number of DragWidgetSystem runs so far
    startLocal      \* per entity, its position when it was last clicked on

dvars == <<items, added, usedBundles, dispatcher, buildResult, lastItems,
           loadLog, unloadLog, unloadResult, resources, preResources,
           execPc, execLog, executed>>

lvars == <<screen_dim, screen_size, transforms, parent, preTransforms, runs, edits>>

bvars == <<blinks, hidden, commands, blinkPc, blinkRuns>>

rvars == <<dimensions, resize_screen_size, ui_resize, has_transform, channel,
           local_modified, calls, callSize, owed, lastRun>>

gvars == <<record, drag_local, drag_scale_mode, draggable, drag_hidden,
           drag_hidden_prop, mouse, ui_events, drag_out, frame, frames,
           startLocal>>

vars == <<dvars, lvars, bvars, rvars, gvars>>

(***************************************************************************)
(* Bounds                                                                  *)
(***************************************************************************)
MaxAdds == 4

(***************************************************************************)
(* Inputs                                                                  *)
(***************************************************************************)
SystemNames == {"A", "B"}
ThreadLocalNames == {"T"}

\* DispatcherItem
System(s) == [kind |-> "System", name |-> s]
FlushCmdBuffers == [kind |-> "FlushCmdBuffers", name |-> "-"]
ThreadLocalFn(f) == [kind |-> "ThreadLocalFn", name |-> f]
ThreadLocalSystem(s) == [kind |-> "ThreadLocalSystem", name |-> s]
SystemBundle(b) == [kind |-> "SystemBundle", name |-> b]

\* The bundles of the model.  1 adds a system, the nested bundle 2 and a
\* thread-local system; 2 adds a system and the nested bundle 3; 3 adds
\* systems only (as TransformBundle does); 4 adds nothing and owns a
\* resource (tests::MyBundle).
BundleIds == 1..4
TopBundles == {1, 4}

BundleItems(b) ==
    CASE b = 1 -> <<System("C"), SystemBundle(2), ThreadLocalSystem("U")>>
      [] b = 2 -> <<System("D"), SystemBundle(3)>>
      [] b = 3 -> <<System("P"), System("Q")>>
      [] OTHER -> <<>>

\* The resource a bundle inserts in load and removes in unload.
BundleResource(b) == IF b \in {1, 2, 4} THEN {b} ELSE {}

\* Step
StepSystems(systems) == [kind |-> "Systems", systems |-> systems]
StepFlushCmdBuffers == [kind |-> "FlushCmdBuffers", systems |-> <<>>]
StepThreadLocalFn(f) == [kind |-> "ThreadLocalFn", systems |-> <<f>>]
StepThreadLocalSystem(s) == [kind |-> "ThreadLocalSystem", systems |-> <<s>>]

NoDispatcher == [status |-> "none", steps |-> <<>>, bundles |-> <<>>]

\* DispatcherData::default(), with the world the load calls act on.
DefaultData(res) ==
    [steps |-> <<>>, accumulator |-> <<>>, bundles |-> <<>>,
     loadLog |-> <<>>, resources |-> res, err |-> 0]

(***************************************************************************)
(* DispatcherData::finalize_executor                                       *)
(***************************************************************************)
\* Mutant: the accumulator is pushed as an Executor even when it is empty.
finalize_executor_unchecked(data) ==
    [data EXCEPT !.steps = Append(@, StepSystems(data.accumulator)),
                 !.accumulator = <<>>]

finalize_executor(data) ==
    IF data.accumulator # <<>>
    THEN [data EXCEPT !.steps = Append(@, StepSystems(data.accumulator)),
                      !.accumulator = <<>>]
    ELSE data

(***************************************************************************)
(* DispatcherBuilder::load, one match arm per operator                     *)
(***************************************************************************)
\* Mutant of LoadSystem: the system is put in front of the pending ones.
LoadSystemInFront(data, s) == [data EXCEPT !.accumulator = <<s>> \o @]

LoadSystem(data, s) == [data EXCEPT !.accumulator = Append(@, s)]

LoadFlush(data) ==
    LET d == finalize_executor(data)
    IN  [d EXCEPT !.steps = Append(@, StepFlushCmdBuffers)]

LoadThreadLocalFn(data, f) ==
    LET d == finalize_executor(data)
    IN  [d EXCEPT !.steps = Append(@, StepThreadLocalFn(f))]

\* Mutant of LoadThreadLocalSystem: a barrier is put after the Executor.
LoadThreadLocalSystemBarrier(data, s) ==
    LET d == finalize_executor(data)
        e == IF data.accumulator # <<>>
             THEN [d EXCEPT !.steps = Append(@, StepFlushCmdBuffers)]
             ELSE d
    IN  [e EXCEPT !.steps = Append(@, StepThreadLocalSystem(s))]

LoadThreadLocalSystem(data, s) ==
    LET d == finalize_executor(data)
    IN  [d EXCEPT !.steps = Append(@, StepThreadLocalSystem(s))]

\* bundle.load(world, resources, &mut builder): Err for the bundles of fails.
BundleLoad(data, b, fails) ==
    IF b \in fails
    THEN [data EXCEPT !.loadLog = Append(@, [bundle |-> b, ok |-> FALSE]),
                      !.err = b]
    ELSE [data EXCEPT !.loadLog = Append(@, [bundle |-> b, ok |-> TRUE]),
                      !.resources = @ \cup BundleResource(b)]

\* Mutant of PushBundle: the bundle is dropped instead of stored.
PushBundleDropped(data, b) == data

\* data.bundles.push(bundle), reached when neither `?` returned.
PushBundle(data, b) ==
    IF data.err # 0 THEN data ELSE [data EXCEPT !.bundles = Append(@, b)]

RECURSIVE LoadItems(_, _, _)

\* Mutant of LoadBundle: the bundle is stored before its nested items load.
LoadBundlePushFirst(data, b, fails) ==
    LET d1 == BundleLoad(data, b, fails)
    IN  IF d1.err # 0 THEN d1
        ELSE LoadItems(BundleItems(b), PushBundle(d1, b), fails)

\* Mutant of LoadBundle: the systems of a bundle get an Executor of their own.
LoadBundleFenced(data, b, fails) ==
    LET d1 == BundleLoad(finalize_executor(data), b, fails)
    IN  IF d1.err # 0 THEN d1
        ELSE PushBundle(finalize_executor(LoadItems(BundleItems(b), d1, fails)), b)

\* The SystemBundle arm: bundle.load(..)?; builder.load(..)?; bundles.push(bundle)
LoadBundle(data, b, fails) ==
    LET d1 == BundleLoad(data, b, fails)
    IN  IF d1.err # 0 THEN d1
        ELSE PushBundle(LoadItems(BundleItems(b), d1, fails), b)

LoadItem(item, data, fails) ==
    CASE item.kind = "System" -> LoadSystem(data, item.name)
      [] item.kind = "FlushCmdBuffers" -> LoadFlush(data)
      [] item.kind = "ThreadLocalFn" -> LoadThreadLocalFn(data, item.name)
      [] item.kind = "ThreadLocalSystem" -> LoadThreadLocalSystem(data, item.name)
      [] item.kind = "SystemBundle" -> LoadBundle(data, item.name, fails)

\* Mutant of LoadItems: the loop goes on after a load returned Err.
RECURSIVE LoadItemsNoStop(_, _, _)
LoadItemsNoStop(its, data, fails) ==
    IF its = <<>> THEN data
    ELSE LoadItemsNoStop(Tail(its), LoadItem(Head(its), data, fails), fails)

\* for item in self.items.drain(..), left at the first `?` that returns.
LoadItems(its, data, fails) ==
    IF its = <<>> \/ data.err # 0 THEN data
    ELSE LoadItems(Tail(its), LoadItem(Head(its), data, fails), fails)

(***************************************************************************)
(* Actions of Spec                                                         *)
(***************************************************************************)
Idle == execPc = 0

\* The caller fills the builder, then builds: no add_* call follows a build.
Filling == execPc = 0 /\ buildResult[1] = "none"

add_system ==
    /\ Filling /\ added < MaxAdds
    /\ \E s \in SystemNames : items' = Append(items, System(s))
    /\ added' = added + 1
    /\ UNCHANGED <<usedBundles, dispatcher, buildResult, lastItems, loadLog,
                   unloadLog, unloadResult, resources, preResources, execPc,
                   execLog, executed>>
    /\ UNCHANGED <<lvars, bvars, rvars, gvars>>

flush ==
    /\ Filling /\ added < MaxAdds
    /\ items' = Append(items, FlushCmdBuffers)
    /\ added' = added + 1
    /\ UNCHANGED <<usedBundles, dispatcher, buildResult, lastItems, loadLog,
                   unloadLog, unloadResult, resources, preResources, execPc,
                   execLog, executed>>
    /\ UNCHANGED <<lvars, bvars, rvars, gvars>>

add_thread_local_fn ==
    /\ Filling /\ added < MaxAdds
    /\ \E f \in ThreadLocalNames : items' = Append(items, ThreadLocalFn(f))
    /\ added' = added + 1
    /\ UNCHANGED <<usedBundles, dispatcher, buildResult, lastItems, loadLog,
                   unloadLog, unloadResult, resources, preResources, execPc,
                   execLog, executed>>
    /\ UNCHANGED <<lvars, bvars, rvars, gvars>>

add_thread_local ==
    /\ Filling /\ added < MaxAdds
    /\ \E s \in ThreadLocalNames : items' = Append(items, ThreadLocalSystem(s))
    /\ added' = added + 1
    /\ UNCHANGED <<usedBundles, dispatcher, buildResult, lastItems, loadLog,
                   unloadLog, unloadResult, resources, preResources, execPc,
                   execLog, executed>>
    /\ UNCHANGED <<lvars, bvars, rvars, gvars>>

add_bundle ==
    /\ Filling /\ added < MaxAdds
    /\ \E b \in TopBundles \ usedBundles :
          /\ items' = Append(items, SystemBundle(b))
          /\ usedBundles' = usedBundles \cup {b}
    /\ added' = added + 1
    /\ UNCHANGED <<dispatcher, buildResult, lastItems, loadLog,
                   unloadLog, unloadResult, resources, preResources, execPc,
                   execLog, executed>>
    /\ UNCHANGED <<lvars, bvars, rvars, gvars>>

\* The bundles a load of these items can reach: the ones whose load result
\* is an input of the build.
RECURSIVE BundlesIn(_)
BundlesIn(its) ==
    IF its = <<>> THEN {}
    ELSE (IF Head(its).kind = "SystemBundle"
          THEN {Head(its).name} \cup BundlesIn(BundleItems(Head(its).name))
          ELSE {}) \cup BundlesIn(Tail(its))

\* DispatcherBuilder::build: self.flush().load(world, resources, &mut data)?
\* Mutant: build loads the items without the closing flush.
build_without_flush ==
    /\ Idle
    /\ \E fails \in SUBSET BundlesIn(items) :
          LET data == LoadItems(items, DefaultData(resources), fails)
          IN  /\ dispatcher' =
                    IF data.err = 0
                    THEN [status |-> "built", steps |-> data.steps,
                          bundles |-> data.bundles]
                    ELSE NoDispatcher
              /\ buildResult' = IF data.err = 0 THEN <<"Ok", 0>> ELSE <<"Err", data.err>>
              /\ loadLog' = data.loadLog
              /\ resources' = data.resources
    /\ lastItems' = items
    /\ preResources' = resources
    /\ items' = <<>>
    /\ unloadLog' = <<>>
    /\ unloadResult' = <<"none", 0>>
    /\ execLog' = <<>>
    /\ executed' = FALSE
    /\ UNCHANGED <<added, usedBundles, execPc>>
    /\ UNCHANGED <<lvars, bvars, rvars, gvars>>

\* Mutant: a build that fails leaves the items in the builder.
build_keeps_items_on_error ==
    /\ Idle
    /\ \E fails \in SUBSET BundlesIn(items) :
          LET data == LoadItems(Append(items, FlushCmdBuffers),
                                DefaultData(resources), fails)
          IN  /\ dispatcher' =
                    IF data.err = 0
                    THEN [status |-> "built", steps |-> data.steps,
                          bundles |-> data.bundles]
                    ELSE NoDispatcher
              /\ buildResult' = IF data.err = 0 THEN <<"Ok", 0>> ELSE <<"Err", data.err>>
              /\ loadLog' = data.loadLog
              /\ resources' = data.resources
              /\ items' = IF data.err = 0 THEN <<>> ELSE items
    /\ lastItems' = items
    /\ preResources' = resources
    /\ unloadLog' = <<>>
    /\ unloadResult' = <<"none", 0>>
    /\ execLog' = <<>>
    /\ executed' = FALSE
    /\ UNCHANGED <<added, usedBundles, execPc>>
    /\ UNCHANGED <<lvars, bvars, rvars, gvars>>

build ==
    /\ Idle
    /\ \E fails \in SUBSET BundlesIn(items) :
          LET data == LoadItems(Append(items, FlushCmdBuffers),
                                DefaultData(resources), fails)
          IN  /\ dispatcher' =
                    IF data.err = 0
                    THEN [status |-> "built", steps |-> data.steps,
                          bundles |-> data.bundles]
                    ELSE NoDispatcher
              /\ buildResult' = IF data.err = 0 THEN <<"Ok", 0>> ELSE <<"Err", data.err>>
              /\ loadLog' = data.loadLog
              /\ resources' = data.resources
    /\ lastItems' = items
    /\ preResources' = resources
    /\ items' = <<>>
    /\ unloadLog' = <<>>
    /\ unloadResult' = <<"none", 0>>
    /\ execLog' = <<>>
    /\ executed' = FALSE
    /\ UNCHANGED <<added, usedBundles, execPc>>
    /\ UNCHANGED <<lvars, bvars, rvars, gvars>>

(***************************************************************************)
(* Dispatcher::unload                                                      *)
(***************************************************************************)
\* Mutant of BundleUnload: the resource is left in place.
BundleUnloadKeeps(st, b, fails) ==
    IF b \in fails
    THEN [st EXCEPT !.log = Append(@, [bundle |-> b, ok |-> FALSE]), !.err = b]
    ELSE [st EXCEPT !.log = Append(@, [bundle |-> b, ok |-> TRUE])]

\* bundle.unload(world, resources): Err for the bundles of fails.
BundleUnload(st, b, fails) ==
    IF b \in fails
    THEN [st EXCEPT !.log = Append(@, [bundle |-> b, ok |-> FALSE]), !.err = b]
    ELSE [st EXCEPT !.log = Append(@, [bundle |-> b, ok |-> TRUE]),
                    !.resources = @ \ BundleResource(b)]

\* Mutant of UnloadBundles: the loop goes on after an unload returned Err.
RECURSIVE UnloadBundlesNoStop(_, _, _)
UnloadBundlesNoStop(bs, st, fails) ==
    IF bs = <<>> THEN st
    ELSE UnloadBundlesNoStop(Tail(bs), BundleUnload(st, Head(bs), fails), fails)

\* for bundle in &mut self.bundles { bundle.unload(world, resources)?; }
RECURSIVE UnloadBundles(_, _, _)
UnloadBundles(bs, st, fails) ==
    IF bs = <<>> \/ st.err # 0 THEN st
    ELSE UnloadBundles(Tail(bs), BundleUnload(st, Head(bs), fails), fails)

unload ==
    /\ Idle
    /\ dispatcher.status = "built"
    /\ \E fails \in SUBSET {dispatcher.bundles[i] : i \in DOMAIN dispatcher.bundles} :
          LET st == UnloadBundles(dispatcher.bundles,
                                  [log |-> <<>>, resources |-> resources, err |-> 0],
                                  fails)
          IN  /\ unloadLog' = st.log
              /\ resources' = st.resources
              /\ unloadResult' = IF st.err = 0 THEN <<"Ok", 0>> ELSE <<"Err", st.err>>
    /\ dispatcher' = [dispatcher EXCEPT !.status = "unloaded"]
    /\ UNCHANGED <<items, added, usedBundles, buildResult, lastItems, loadLog,
                   preResources, execPc, execLog, executed>>
    /\ UNCHANGED <<lvars, bvars, rvars, gvars>>

(***************************************************************************)
(* Dispatcher::execute: self.schedule.execute(world, resources)            *)
(***************************************************************************)
\* Mutant of execute_begin: execute returns without walking the schedule.
execute_nothing ==
    /\ Idle
    /\ dispatcher.status = "built"
    /\ execLog' = <<>>
    /\ executed' = TRUE
    /\ UNCHANGED <<items, added, usedBundles, dispatcher, buildResult, lastItems,
                   loadLog, unloadLog, unloadResult, resources, preResources, execPc>>
    /\ UNCHANGED <<lvars, bvars, rvars, gvars>>

execute_begin ==
    /\ Idle
    /\ dispatcher.status = "built"
    /\ execPc' = 1
    /\ execLog' = <<>>
    /\ executed' = FALSE
    /\ UNCHANGED <<items, added, usedBundles, dispatcher, buildResult, lastItems,
                   loadLog, unloadLog, unloadResult, resources, preResources>>
    /\ UNCHANGED <<lvars, bvars, rvars, gvars>>

\* The walk moves to the step after i, or execute returns after the last.
Advance(i) ==
    IF i + 1 > Len(dispatcher.steps)
    THEN /\ execPc' = 0
         /\ executed' = TRUE
    ELSE /\ execPc' = i + 1
         /\ executed' = FALSE

\* An Executor step: its systems are submitted to the worker pool and the
\* walk blocks until all of them have completed.
RECURSIVE LogSystems(_, _, _)
LogSystems(log, i, systems) ==
    IF systems = <<>> THEN log
    ELSE LogSystems(Append(log, <<i, Head(systems)>>), i, Tail(systems))

run_systems ==
    /\ execPc > 0
    /\ dispatcher.steps[execPc].kind = "Systems"
    /\ execLog' = LogSystems(execLog, execPc, dispatcher.steps[execPc].systems)
    /\ Advance(execPc)
    /\ UNCHANGED <<items, added, usedBundles, dispatcher, buildResult, lastItems,
                   loadLog, unloadLog, unloadResult, resources, preResources>>
    /\ UNCHANGED <<lvars, bvars, rvars, gvars>>

run_flush ==
    /\ execPc > 0
    /\ dispatcher.steps[execPc].kind = "FlushCmdBuffers"
    /\ execLog' = Append(execLog, <<execPc, "-">>)
    /\ Advance(execPc)
    /\ UNCHANGED <<items, added, usedBundles, dispatcher, buildResult, lastItems,
                   loadLog, unloadLog, unloadResult, resources, preResources>>
    /\ UNCHANGED <<lvars, bvars, rvars, gvars>>

run_thread_local ==
    /\ execPc > 0
    /\ dispatcher.steps[execPc].kind \in {"ThreadLocalFn", "ThreadLocalSystem"}
    /\ execLog' = Append(execLog, <<execPc, dispatcher.steps[execPc].systems[1]>>)
    /\ Advance(execPc)
    /\ UNCHANGED <<items, added, usedBundles, dispatcher, buildResult, lastItems,
                   loadLog, unloadLog, unloadResult, resources, preResources>>
    /\ UNCHANGED <<lvars, bvars, rvars, gvars>>

(***************************************************************************)
(* UI layout: amethyst_ui/src/layout.rs                                    *)
(*                                                                         *)
(* f32 values are modelled as exact rationals <<numerator, denominator>>   *)
(* in lowest terms with a positive denominator, together with the three    *)
(* special values of IEEE 754: <<1, 0>> is +inf, <<-1, 0>> is -inf and     *)
(* <<0, 0>> is NaN.  Rounding and the sign of zero are left out; a NaN     *)
(* is equal to itself here.                                                *)
(***************************************************************************)
Abs(n) == IF n < 0 THEN -n ELSE n
Sign(n) == IF n > 0 THEN 1 ELSE IF n < 0 THEN -1 ELSE 0

RECURSIVE GCD(_, _)
GCD(a, b) == IF b = 0 THEN a ELSE GCD(b, a % b)

Norm(n, d) ==
    IF d = 0 THEN <<Sign(n), 0>>
    ELSE LET g == GCD(Abs(n), d) IN <<n \div g, d \div g>>

R(n) == <<n, 1>>
Half == <<1, 2>>
NaN == <<0, 0>>
IsNaN(x) == x = NaN
IsInf(x) == x[2] = 0 /\ x[1] # 0
IsFinite(x) == x[2] # 0
RNeg(x) == <<-x[1], x[2]>>
\* inf + inf = inf; inf - inf = NaN; NaN + x = NaN
RAdd(x, y) ==
    IF IsInf(x) /\ x = y THEN x
    ELSE Norm(x[1] * y[2] + y[1] * x[2], x[2] * y[2])
RSub(x, y) == RAdd(x, RNeg(y))
\* 0 * inf = NaN; NaN * x = NaN
RMul(x, y) == Norm(x[1] * y[1], x[2] * y[2])
\* 1 / 0 = inf; 1 / inf = 0; 1 / NaN = NaN
Recip(y) == IF y[1] < 0 THEN <<-y[2], -y[1]>> ELSE <<y[2], y[1]>>
\* x / 0 = +-inf; 0 / 0 = NaN; inf / inf = NaN
RDiv(x, y) == RMul(x, Recip(y))
RLeq(x, y) == x[1] * y[2] <= y[1] * x[2]
\* f32::min: if one of the arguments is NaN, the other is returned
RMin(x, y) ==
    IF IsNaN(x) THEN y
    ELSE IF IsNaN(y) THEN x
    ELSE IF RLeq(x, y) THEN x ELSE y

\* Anchor::norm_offset
norm_offset(anchor) ==
    CASE anchor = "TopLeft" -> <<RNeg(Half), Half>>
      [] anchor = "TopMiddle" -> <<R(0), Half>>
      [] anchor = "TopRight" -> <<Half, Half>>
      [] anchor = "MiddleLeft" -> <<RNeg(Half), R(0)>>
      [] anchor = "Middle" -> <<R(0), R(0)>>
      [] anchor = "MiddleRight" -> <<Half, R(0)>>
      [] anchor = "BottomLeft" -> <<RNeg(Half), RNeg(Half)>>
      [] anchor = "BottomMiddle" -> <<R(0), RNeg(Half)>>
      [] anchor = "BottomRight" -> <<Half, RNeg(Half)>>

\* Stretch
NoStretch == [kind |-> "NoStretch", x_margin |-> R(0), y_margin |-> R(0),
              keep_aspect_ratio |-> FALSE]
StretchX(m) == [kind |-> "X", x_margin |-> m, y_margin |-> R(0),
                keep_aspect_ratio |-> FALSE]
StretchY(m) == [kind |-> "Y", x_margin |-> R(0), y_margin |-> m,
                keep_aspect_ratio |-> FALSE]
StretchXY(mx, my, keep) == [kind |-> "XY", x_margin |-> mx, y_margin |-> my,
                            keep_aspect_ratio |-> keep]

\* Mutant: the stretch is ignored, width and height stay as they are.
new_size_unstretched(t, avail_w, avail_h) == <<t.width, t.height>>

\* Mutant: keep_aspect_ratio is not looked at, XY stretches both ways.
new_size_aspect_ignored(t, avail_w, avail_h) ==
    LET two == R(2)
        sx == RSub(avail_w, RMul(t.stretch.x_margin, two))
        sy == RSub(avail_h, RMul(t.stretch.y_margin, two))
    IN  CASE t.stretch.kind = "NoStretch" -> <<t.width, t.height>>
          [] t.stretch.kind = "X" -> <<sx, t.height>>
          [] t.stretch.kind = "Y" -> <<t.width, sy>>
          [] t.stretch.kind = "XY" -> <<sx, sy>>

\* Mutant: a stretch along one axis resizes the other axis as well.
new_size_both_axes(t, avail_w, avail_h) ==
    LET two == R(2)
        sx == RSub(avail_w, RMul(t.stretch.x_margin, two))
        sy == RSub(avail_h, RMul(t.stretch.y_margin, two))
    IN  CASE t.stretch.kind = "NoStretch" -> <<t.width, t.height>>
          [] t.stretch.kind = "X" -> <<sx, avail_h>>
          [] t.stretch.kind = "Y" -> <<avail_w, sy>>
          [] t.stretch.kind = "XY" /\ ~t.stretch.keep_aspect_ratio -> <<sx, sy>>
          [] t.stretch.kind = "XY" /\ t.stretch.keep_aspect_ratio ->
                LET scale == RMin(RDiv(sx, t.width), RDiv(sy, t.height))
                IN  <<RMul(t.width, scale), RMul(t.height, scale)>>

\* let new_size = match transform.stretch { .. } against a box avail_w x avail_h
new_size(t, avail_w, avail_h) ==
    LET two == R(2)
        sx == RSub(avail_w, RMul(t.stretch.x_margin, two))
        sy == RSub(avail_h, RMul(t.stretch.y_margin, two))
    IN  CASE t.stretch.kind = "NoStretch" -> <<t.width, t.height>>
          [] t.stretch.kind = "X" -> <<sx, t.height>>
          [] t.stretch.kind = "Y" -> <<t.width, sy>>
          [] t.stretch.kind = "XY" /\ ~t.stretch.keep_aspect_ratio -> <<sx, sy>>
          [] t.stretch.kind = "XY" /\ t.stretch.keep_aspect_ratio ->
                LET scale == RMin(RDiv(sx, t.width), RDiv(sy, t.height))
                IN  <<RMul(t.width, scale), RMul(t.height, scale)>>

\* Mutant: the pivot offset is left out.
ScaleAndPivotNoPivot(t, ref_w, ref_h) ==
    IF t.scale_mode = "Pixel"
    THEN [t EXCEPT !.pixel_x = RAdd(@, t.local_x),
                   !.pixel_y = RAdd(@, t.local_y),
                   !.pixel_width = t.width,
                   !.pixel_height = t.height]
    ELSE [t EXCEPT !.pixel_x = RAdd(@, RMul(t.local_x, ref_w)),
                   !.pixel_y = RAdd(@, RMul(t.local_y, ref_h)),
                   !.pixel_width = RMul(t.width, ref_w),
                   !.pixel_height = RMul(t.height, ref_h)]

\* The scale_mode match and the pivot offset, shared by both loops: t has
\* its anchored pixel_x/pixel_y and its new width/height; ref_w x ref_h is
\* the screen or the parent's pixel box.
ScaleAndPivot(t, ref_w, ref_h) ==
    LET t1 == IF t.scale_mode = "Pixel"
              THEN [t EXCEPT !.pixel_x = RAdd(@, t.local_x),
                             !.pixel_y = RAdd(@, t.local_y),
                             !.pixel_width = t.width,
                             !.pixel_height = t.height]
              ELSE [t EXCEPT !.pixel_x = RAdd(@, RMul(t.local_x, ref_w)),
                             !.pixel_y = RAdd(@, RMul(t.local_y, ref_h)),
                             !.pixel_width = RMul(t.width, ref_w),
                             !.pixel_height = RMul(t.height, ref_h)]
        pivot_norm == norm_offset(t.pivot)
    IN  [t1 EXCEPT !.pixel_x = RAdd(@, RMul(t1.pixel_width, RNeg(pivot_norm[1]))),
                   !.pixel_y = RAdd(@, RMul(t1.pixel_height, RNeg(pivot_norm[2])))]

\* Mutant: the anchored point is taken from the screen's corner, not from
\* its centre.
process_root_from_corner(t, sd) ==
    LET norm == norm_offset(t.anchor)
        size == new_size(t, sd[1], sd[2])
        t0 == [t EXCEPT !.pixel_x = RMul(sd[1], norm[1]),
                        !.pixel_y = RMul(sd[2], norm[2]),
                        !.global_z = t.local_z,
                        !.width = size[1],
                        !.height = size[2]]
    IN  ScaleAndPivot(t0, sd[1], sd[2])

\* The body of process_root_iter's loop, for one root transform.
process_root(t, sd) ==
    LET norm == norm_offset(t.anchor)
        size == new_size(t, sd[1], sd[2])
        t0 == [t EXCEPT !.pixel_x = RAdd(RDiv(sd[1], R(2)), RMul(sd[1], norm[1])),
                        !.pixel_y = RAdd(RDiv(sd[2], R(2)), RMul(sd[2], norm[2])),
                        !.global_z = t.local_z,
                        !.width = size[1],
                        !.height = size[2]]
    IN  ScaleAndPivot(t0, sd[1], sd[2])

\* The body of the "Compute transforms with parents" loop, for one child
\* and the copy of its parent's transform found in the snapshot.
process_child(t, p) ==
    LET norm == norm_offset(t.anchor)
        size == new_size(t, p.pixel_width, p.pixel_height)
        t0 == [t EXCEPT !.pixel_x = RAdd(p.pixel_x, RMul(p.pixel_width, norm[1])),
                        !.pixel_y = RAdd(p.pixel_y, RMul(p.pixel_height, norm[2])),
                        !.global_z = RAdd(p.global_z, t.local_z),
                        !.width = size[1],
                        !.height = size[2]]
    IN  ScaleAndPivot(t0, p.pixel_width, p.pixel_height)

\* Entities with a UiTransform; a Parent component names one of them, or
\* MissingParent, an entity that has no UiTransform.
Entities == {"e1", "e2", "e3"}
NoParent == "none"
MissingParent == "gone"

\* transforms.iter().find(|x| x.0 == parent.0)
HasParentTransform(par, e) == par[e] \in Entities

\* Mutant: an entity whose parent has no UiTransform is laid out as a root.
LayoutResultOrphansAsRoots(ts, par, sd) ==
    LET roots == [e \in Entities |->
                     IF par[e] \notin Entities THEN process_root(ts[e], sd)
                     ELSE ts[e]]
        snapshot == roots
    IN  [e \in Entities |->
            IF par[e] \in Entities
            THEN process_child(roots[e], snapshot[par[e]])
            ELSE roots[e]]

\* Mutant: the snapshot the children read is taken before the roots are
\* resolved.
LayoutResultEarlySnapshot(ts, par, sd) ==
    LET roots == [e \in Entities |->
                     IF par[e] = NoParent THEN process_root(ts[e], sd) ELSE ts[e]]
        snapshot == ts
    IN  [e \in Entities |->
            IF par[e] # NoParent /\ HasParentTransform(par, e)
            THEN process_child(roots[e], snapshot[par[e]])
            ELSE roots[e]]

\* The run of UiTransformSystem: the roots, the snapshot, then the children.
\* The maybe_changed filter of the child query lets every child through: the
\* query's own Write access marks the UiTransforms changed on every run.
LayoutResult(ts, par, sd) ==
    LET roots == [e \in Entities |->
                     IF par[e] = NoParent THEN process_root(ts[e], sd) ELSE ts[e]]
        snapshot == roots
    IN  [e \in Entities |->
            IF par[e] # NoParent /\ HasParentTransform(par, e)
            THEN process_child(roots[e], snapshot[par[e]])
            ELSE roots[e]]

ui_transform_system ==
    /\ transforms' = LayoutResult(transforms, parent, screen_dim)
    /\ screen_size' = screen_dim
    /\ preTransforms' = transforms
    /\ runs' = IF runs < 2 THEN runs + 1 ELSE runs
    /\ UNCHANGED <<screen_dim, parent, edits>>
    /\ UNCHANGED <<dvars, bvars, rvars, gvars>>

\* The window is resized between two runs: ScreenDimensions changes.
Screens == {<<R(8), R(6)>>, <<R(4), R(2)>>}

resize ==
    /\ runs >= 1
    /\ \E sd \in Screens \ {screen_dim} : screen_dim' = sd
    /\ runs' = 0
    /\ UNCHANGED <<screen_size, transforms, parent, preTransforms, edits>>
    /\ UNCHANGED <<dvars, bvars, rvars, gvars>>

\* A UiTransform is modified from outside the system between two runs (as
\* the drag system does): its local offset moves by one unit.
MaxEdits == 1

modify_transform ==
    /\ runs >= 1
    /\ edits < MaxEdits
    /\ \E e \in Entities :
          transforms' = [transforms EXCEPT ![e].local_x = RAdd(@, R(1))]
    /\ edits' = edits + 1
    /\ runs' = 0
    /\ UNCHANGED <<screen_dim, screen_size, parent, preTransforms>>
    /\ UNCHANGED <<dvars, bvars, rvars, gvars>>

\* UiTransform::new(anchor, pivot, x, y, z, width, height): NoStretch, Pixel,
\* and the pixel fields set from the local ones; stretch and scale_mode are
\* then set by the caller.
NewTransform(anchor, pivot, x, y, z, width, height, stretch, scale_mode) ==
    [local_x |-> x, local_y |-> y, local_z |-> z, width |-> width,
     height |-> height, pixel_x |-> x, pixel_y |-> y, pixel_width |-> width,
     pixel_height |-> height, global_z |-> z, anchor |-> anchor,
     pivot |-> pivot, stretch |-> stretch, scale_mode |-> scale_mode]

\* The UiTransforms entities are created with.
Templates ==
    { NewTransform("TopLeft", "TopLeft", R(1), R(2), R(1), R(4), R(2),
                   NoStretch, "Pixel"),
      NewTransform("Middle", "Middle", R(0), R(0), R(0), R(1), R(1),
                   StretchXY(R(0), R(0), FALSE), "Percent"),
      NewTransform("Middle", "Middle", R(0), R(0), R(1), R(1), R(1),
                   NoStretch, "Percent"),
      NewTransform("BottomRight", "Middle", R(0), R(1), R(2), R(4), R(2),
                   StretchXY(R(1), R(1), TRUE), "Pixel"),
      NewTransform("Middle", "TopLeft", R(1), R(0), R(0), R(2), R(2),
                   StretchX(R(1)), "Pixel"),
      NewTransform("MiddleLeft", "BottomRight", R(0), R(0), R(1), R(2), R(4),
                   StretchY(R(1)), "Pixel") }

\* The parent forests: a chain, two children of one root, two roots, and a
\* child whose parent has no UiTransform.
Forest(p1, p2, p3) == [e1 |-> p1, e2 |-> p2, e3 |-> p3]

Forests ==
    { Forest(NoParent, "e1", "e2"), Forest("e2", "e3", NoParent),
      Forest(NoParent, "e1", "e1"), Forest(NoParent, NoParent, "e1"),
      Forest(NoParent, "e1", MissingParent) }

\* The scenes of small values: any screen, forest and templates.
SmallScenes ==
    { [screen_dim |-> sd, parent |-> par, transforms |-> ts] :
        sd \in Screens, par \in Forests, ts \in [Entities -> Templates] }

\* The UiTransforms of the layout scenarios: the root of S4, a root that
\* resolves to the box (0, 0, 200, 100) on a 200x100 screen, the child of
\* S5, the contained child, and centred roots.
S4Root ==
    NewTransform("TopLeft", "TopLeft", R(10), R(20), R(0), R(100), R(50),
                 NoStretch, "Pixel")
S5Parent ==
    NewTransform("BottomLeft", "Middle", R(0), R(0), R(0), R(200), R(100),
                 StretchXY(R(0), R(0), FALSE), "Pixel")
S5Child ==
    NewTransform("Middle", "Middle", R(0), R(0), R(0), R(1), R(1),
                 StretchXY(R(0), R(0), FALSE), "Percent")
ContainedChild ==
    NewTransform("Middle", "Middle", R(0), R(0), R(1), R(1), R(1),
                 NoStretch, "Percent")
CentredRoot(y) ==
    NewTransform("Middle", "Middle", R(0), y, R(0), R(100), R(50),
                 NoStretch, "Pixel")

ScenarioScreens == {<<R(800), R(600)>>, <<R(200), R(100)>>}

\* The scenes of the scenarios: a root with one child, and a second root.
ScenarioScenes ==
    { [screen_dim |-> sd, parent |-> Forest(NoParent, "e1", NoParent),
       transforms |-> [e1 |-> r, e2 |-> c, e3 |-> m]] :
        sd \in ScenarioScreens, r \in {S4Root, S5Parent},
        c \in {S5Child, ContainedChild},
        m \in {CentredRoot(R(0)), CentredRoot(R(30))} }

Scenes == SmallScenes \cup ScenarioScenes

LInit ==
    /\ \E sc \in Scenes :
          /\ screen_dim = sc.screen_dim
          /\ parent = sc.parent
          /\ transforms = sc.transforms
    /\ screen_size = <<R(0), R(0)>>
    /\ preTransforms = transforms
    /\ runs = 0
    /\ edits = 0

\* The layout state while the dispatcher is what is looked at.
LayoutUnused ==
    /\ screen_dim = <<R(0), R(0)>>
    /\ screen_size = <<R(0), R(0)>>
    /\ transforms = <<>>
    /\ parent = <<>>
    /\ preTransforms = <<>>
    /\ runs = 0
    /\ edits = 0

(***************************************************************************)
(* Blink: amethyst_ui/src/blink.rs                                         *)
(***************************************************************************)
BlinkEntities == {"b1", "b2"}

\* Blink { delay, timer, absolute_time }
Blink(delay, timer, absolute_time) ==
    [delay |-> delay, timer |-> timer, absolute_time |-> absolute_time]

RLt(x, y) == ~RLeq(y, x)

\* Mutant: the timer is never taken back by the delay.
BlinkStepNoReset(blink, abs_sec, abs_unscaled_sec) ==
    [blink EXCEPT !.timer = IF blink.absolute_time
                            THEN RAdd(blink.timer, abs_unscaled_sec)
                            ELSE RAdd(blink.timer, abs_sec)]

\* The timer of a Blink after one run: the delta is added, and the delay
\* is taken off once if the timer has passed it.
BlinkStep(blink, abs_sec, abs_unscaled_sec) ==
    LET t1 == IF blink.absolute_time
              THEN RAdd(blink.timer, abs_unscaled_sec)
              ELSE RAdd(blink.timer, abs_sec)
        t2 == IF RLt(blink.delay, t1) THEN RSub(t1, blink.delay) ELSE t1
    IN  [blink EXCEPT !.timer = t2]

\* let on = blink.timer < blink.delay / 2.0
On(blink) == RLt(blink.timer, RDiv(blink.delay, R(2)))

AddHidden(e) == [op |-> "add_component", entity |-> e]
RemoveHidden(e) == [op |-> "remove_component", entity |-> e]

\* match (on, hidden.is_some()): the commands issued for one entity.
BlinkCommands(e, on, is_hidden) ==
    IF on /\ ~is_hidden THEN <<AddHidden(e)>>
    ELSE IF ~on /\ is_hidden THEN <<RemoveHidden(e)>>
    ELSE <<>>

\* Time::delta_seconds and Time::delta_real_seconds of a frame.
Deltas == {R(0), <<1, 5>>, Half}

\* One run of BlinkSystem over the query's entities.
blink_system ==
    /\ blinkPc = "flushed"
    /\ \E abs_sec \in Deltas, abs_unscaled_sec \in Deltas :
          LET next == [e \in BlinkEntities |->
                          BlinkStep(blinks[e], abs_sec, abs_unscaled_sec)]
          IN  /\ blinks' = next
              /\ commands' = BlinkCommands("b1", On(next["b1"]), "b1" \in hidden)
                             \o BlinkCommands("b2", On(next["b2"]), "b2" \in hidden)
    /\ blinkPc' = "updated"
    /\ blinkRuns' = 1
    /\ UNCHANGED hidden
    /\ UNCHANGED <<dvars, lvars, rvars, gvars>>

RECURSIVE ApplyCommands(_, _)
ApplyCommands(cmds, hid) ==
    IF cmds = <<>> THEN hid
    ELSE ApplyCommands(Tail(cmds),
                       IF Head(cmds).op = "add_component"
                       THEN hid \cup {Head(cmds).entity}
                       ELSE hid \ {Head(cmds).entity})

\* The command buffer is flushed into the world (FlushCmdBuffers).
flush_commands ==
    /\ blinkPc = "updated"
    /\ hidden' = ApplyCommands(commands, hidden)
    /\ commands' = <<>>
    /\ blinkPc' = "flushed"
    /\ UNCHANGED <<blinks, blinkRuns>>
    /\ UNCHANGED <<dvars, lvars, rvars, gvars>>

\* The Blink components entities are created with.
BlinkTemplates ==
    { Blink(R(1), <<2, 5>>, FALSE), Blink(R(1), <<3, 5>>, TRUE),
      Blink(R(2), R(0), FALSE) }

BInit ==
    /\ blinks \in [BlinkEntities -> BlinkTemplates]
    /\ hidden \in SUBSET BlinkEntities
    /\ commands = <<>>
    /\ blinkPc = "flushed"
    /\ blinkRuns = 0

BlinkUnused ==
    /\ blinks = <<>>
    /\ hidden = {}
    /\ commands = <<>>
    /\ blinkPc = "flushed"
    /\ blinkRuns = 0

(***************************************************************************)
(* ResizeSystem: amethyst_ui/src/resize.rs                                 *)
(***************************************************************************)
ResizeEntities == {"r1", "r2"}

\* ComponentEvent::Inserted(id), Modified(id), Removed(id).  The reader
\* folds the events into a bitset, so their order and number are not kept.
Inserted(id) == [kind |-> "Inserted", id |-> id]
Modified(id) == [kind |-> "Modified", id |-> id]
Removed(id) == [kind |-> "Removed", id |-> id]

\* The fold of the channel's events into local_modified.
ReadEvents(events, modified) ==
    modified \cup {e \in ResizeEntities : Inserted(e) \in events \/ Modified(e) \in events}

\* Mutant: the functions are called on a resize only.
InvokedOnResizeOnly(resized, joined, modified) ==
    IF resized THEN joined ELSE {}

\* Mutant: the functions are called in every run.
InvokedEveryRun(resized, joined, modified) == joined

\* The entities whose function a run calls: `joined` have a UiTransform
\* and a UiResize, `modified` is local_modified.
Invoked(resized, joined, modified) ==
    IF resized THEN joined ELSE joined \cap modified

NoRun == [ran |-> FALSE, resized |-> FALSE, modified |-> {}]

\* Mutant: the events raised during the run are left in the channel.
resize_system_unread ==
    LET cleared == {}
        modified == ReadEvents(channel, cleared)
        size == dimensions
        resized == resize_screen_size # size
        joined == has_transform \cap ui_resize
        invoked == Invoked(resized, joined, modified)
        \* the mutable join flags the components it hands out
        during == {Modified(e) : e \in invoked}
    IN  /\ resize_screen_size' = IF resized THEN size ELSE resize_screen_size
        /\ calls' = [e \in ResizeEntities |-> IF e \in invoked THEN 1 ELSE 0]
        /\ callSize' = size
        /\ local_modified' = modified
        /\ channel' = during
        /\ owed' = owed \ invoked
        /\ lastRun' = [ran |-> TRUE, resized |-> resized, modified |-> modified]
        /\ UNCHANGED <<dimensions, ui_resize, has_transform>>
        /\ UNCHANGED <<dvars, lvars, bvars, gvars>>

\* ResizeSystem::run
resize_system ==
    LET cleared == {}
        modified == ReadEvents(channel, cleared)
        size == dimensions
        resized == resize_screen_size # size
        joined == has_transform \cap ui_resize
        invoked == Invoked(resized, joined, modified)
        \* the mutable join flags the components it hands out
        during == {Modified(e) : e \in invoked}
    IN  /\ resize_screen_size' = IF resized THEN size ELSE resize_screen_size
        /\ calls' = [e \in ResizeEntities |-> IF e \in invoked THEN 1 ELSE 0]
        /\ callSize' = size
        /\ local_modified' = ReadEvents(during, modified)
        /\ channel' = {}
        /\ owed' = owed \ invoked
        /\ lastRun' = [ran |-> TRUE, resized |-> resized, modified |-> modified]
        /\ UNCHANGED <<dimensions, ui_resize, has_transform>>
        /\ UNCHANGED <<dvars, lvars, bvars, gvars>>

\* A UiResize component is attached to an entity.
insert_resize ==
    /\ \E e \in ResizeEntities \ ui_resize :
          /\ ui_resize' = ui_resize \cup {e}
          /\ channel' = channel \cup {Inserted(e)}
          /\ owed' = owed \cup {e}
    /\ lastRun' = NoRun
    /\ UNCHANGED <<dimensions, resize_screen_size, has_transform, local_modified,
                   calls, callSize>>
    /\ UNCHANGED <<dvars, lvars, bvars, gvars>>

\* The function of a UiResize component is changed.
modify_resize ==
    /\ \E e \in ui_resize :
          /\ channel' = channel \cup {Modified(e)}
          /\ owed' = owed \cup {e}
    /\ lastRun' = NoRun
    /\ UNCHANGED <<dimensions, resize_screen_size, ui_resize, has_transform,
                   local_modified, calls, callSize>>
    /\ UNCHANGED <<dvars, lvars, bvars, gvars>>

\* A UiResize component is removed from its entity.
remove_resize ==
    /\ \E e \in ui_resize :
          /\ ui_resize' = ui_resize \ {e}
          /\ channel' = channel \cup {Removed(e)}
          /\ owed' = owed \ {e}
    /\ lastRun' = NoRun
    /\ UNCHANGED <<dimensions, resize_screen_size, has_transform, local_modified,
                   calls, callSize>>
    /\ UNCHANGED <<dvars, lvars, bvars, gvars>>

\* The window is resized.
WindowSizes == {<<800, 600>>, <<1024, 768>>}

window_resized ==
    /\ \E d \in WindowSizes \ {dimensions} : dimensions' = d
    /\ lastRun' = NoRun
    /\ UNCHANGED <<resize_screen_size, ui_resize, has_transform, channel,
                   local_modified, calls, callSize, owed>>
    /\ UNCHANGED <<dvars, lvars, bvars, gvars>>

\* ResizeSystem::new, in a world where no UiResize is attached yet.
RInit ==
    /\ dimensions \in WindowSizes
    /\ resize_screen_size = <<0, 0>>
    /\ ui_resize = {}
    /\ has_transform \in SUBSET ResizeEntities
    /\ channel = {}
    /\ local_modified = {}
    /\ calls = [e \in ResizeEntities |-> 0]
    /\ callSize = <<0, 0>>
    /\ owed = {}
    /\ lastRun = NoRun

ResizeUnused ==
    /\ dimensions = <<0, 0>>
    /\ resize_screen_size = <<0, 0>>
    /\ ui_resize = {}
    /\ has_transform = {}
    /\ channel = {}
    /\ local_modified = {}
    /\ calls = <<>>
    /\ callSize = <<0, 0>>
    /\ owed = {}
    /\ lastRun = NoRun

(***************************************************************************)
(* DragWidgetSystem: amethyst_ui/src/drag.rs                               *)
(***************************************************************************)
DragEntities == {"d1", "d2"}

MaxFrames == 2

\* self.record holds no entry for the entity.
NoRecord == [tracked |-> FALSE]
Record(first, prev) == [tracked |-> TRUE, first |-> first, prev |-> prev]

\* UiEvent::new(event_type, target)
ClickStart(e) == [event_type |-> "ClickStart", target |-> e]
ClickStop(e) == [event_type |-> "ClickStop", target |-> e]
Dragging(e, offset_from_mouse, new_position) ==
    [event_type |-> "Dragging", target |-> e,
     offset_from_mouse |-> offset_from_mouse, new_position |-> new_position]
Dropped(e, dropped_on) ==
    [event_type |-> "Dropped", target |-> e, dropped_on |-> dropped_on]

\* Vector2<f32>
VSub(a, b) == <<RSub(a[1], b[1]), RSub(a[2], b[2])>>

\* ScreenDimensions of the frames looked at.
DragScreen == <<R(10), R(8)>>

\* What InputHandler::mouse_position returns.
NoMouse == [some |-> FALSE]
SomeMouse(x, y) == [some |-> TRUE, pos |-> <<x, y>>]
MousePositions == {NoMouse, SomeMouse(2, 3), SomeMouse(7, 5)}

\* The mouse position in UI coordinates: y grows upwards.
MousePos(raw) ==
    LET p == IF raw.some THEN raw.pos ELSE <<0, 0>>
    IN  <<R(p[1]), RSub(DragScreen[2], R(p[2]))>>

\* The entities have no parent: their parent size is the screen's.
get_parent_pixel_size(e) == DragScreen

\* The interactable entities under the cursor and their layers.
DragLayer(e) == IF e = "d1" THEN R(2) ELSE R(1)
UnderCursor(pos) == IF RLeq(pos[1], R(5)) THEN DragEntities ELSE {"d1"}
NoTarget == "none"

\* The topmost interactable entity under pos that lies below `height`.
targeted_below(pos, height) ==
    LET below == {e \in UnderCursor(pos) : RLt(DragLayer(e), height)}
    IN  IF below = {} THEN NoTarget
        ELSE CHOOSE e \in below : \A o \in below : RLeq(DragLayer(o), DragLayer(e))

\* The loop over the events the reader has not read yet.
RECURSIVE ReadUiEvents(_, _, _, _)
ReadUiEvents(evs, rec, stopped, m) ==
    IF evs = <<>> THEN [record |-> rec, click_stopped |-> stopped]
    ELSE LET ev == Head(evs)
         IN  IF ev.event_type = "ClickStart"
             THEN ReadUiEvents(Tail(evs),
                      IF ev.target \in draggable
                      THEN [rec EXCEPT ![ev.target] = Record(m, m)] ELSE rec,
                      stopped, m)
             ELSE IF ev.event_type = "ClickStop"
             THEN ReadUiEvents(Tail(evs), rec,
                      IF rec[ev.target].tracked
                      THEN stopped \cup {ev.target} ELSE stopped,
                      m)
             ELSE ReadUiEvents(Tail(evs), rec, stopped, m)

\* The tracked entities that carry Hidden or HiddenPropagate.
HiddenTracked(rec) ==
    {e \in DragEntities : rec[e].tracked /\ e \in drag_hidden \cup drag_hidden_prop}

\* Mutant: only the entities that are not marked for release are dragged.
DraggedStillTracked(rec, stopped) ==
    {e \in DragEntities : rec[e].tracked /\ e \notin stopped}

\* The entities the dragging loop visits: every entry of self.record.
Dragged(rec, stopped) == {e \in DragEntities : rec[e].tracked}

\* Mutant: the position does not follow the mouse.
MovedNowhere(e, local, change) == local

\* ui_transform.local_x += change[0] / scale_x, and the same for y.
Moved(e, local, change) ==
    LET size == get_parent_pixel_size(e)
        scale == IF drag_scale_mode[e] = "Pixel" THEN <<R(1), R(1)>> ELSE size
    IN  <<RAdd(local[1], RDiv(change[1], scale[1])),
          RAdd(local[2], RDiv(change[2], scale[2]))>>

\* Mutant: the record of a released entity is kept.
ReleasedKept(rec, stopped) == rec

\* self.record.remove(entity) for every released entity.
Released(rec, stopped) ==
    [e \in DragEntities |-> IF e \in stopped THEN NoRecord ELSE rec[e]]

\* The orders in which a hash map or hash set may hand out the entities.
Orders == {o \in [1..Cardinality(DragEntities) -> DragEntities] :
              \A i, j \in 1..Cardinality(DragEntities) : o[i] = o[j] => i = j}

RECURSIVE Select(_, _)
Select(s, keep) ==
    IF s = <<>> THEN <<>>
    ELSE IF Head(s) \in keep THEN <<Head(s)>> \o Select(Tail(s), keep)
    ELSE Select(Tail(s), keep)

\* The entities a ClickStart of the events starts to track.
Started(evs) ==
    {e \in draggable : \E i \in 1..Len(evs) : evs[i] = ClickStart(e)}

\* DragWidgetSystem::run
drag_widget_system ==
    /\ frames < MaxFrames
    /\ \E recordOrder \in Orders, stoppedOrder \in Orders :
          LET m == MousePos(mouse)
              read == ReadUiEvents(ui_events, record, {}, m)
              click_stopped == read.click_stopped \cup HiddenTracked(read.record)
              dragged == Dragged(read.record, click_stopped)
              visit == Select([i \in 1..Len(recordOrder) |-> recordOrder[i]], dragged)
              dragging == [i \in 1..Len(visit) |->
                              Dragging(visit[i],
                                       VSub(m, read.record[visit[i]].first), m)]
              rec2 == [e \in DragEntities |->
                          IF e \in dragged
                          THEN Record(read.record[e].first, m)
                          ELSE read.record[e]]
              drop == Select([i \in 1..Len(stoppedOrder) |-> stoppedOrder[i]],
                             click_stopped)
              dropped == [i \in 1..Len(drop) |->
                             Dropped(drop[i],
                                     targeted_below(m, DragLayer(drop[i])))]
          IN  /\ drag_local' = [e \in DragEntities |->
                    IF e \in dragged
                    THEN Moved(e, drag_local[e], VSub(m, read.record[e].prev))
                    ELSE drag_local[e]]
              /\ record' = Released(rec2, click_stopped)
              /\ ui_events' = dragging \o dropped
              /\ drag_out' = dragging \o dropped
              /\ frame' = [ran |-> TRUE, events |-> ui_events, record |-> record,
                           local |-> drag_local, mouse |-> m,
                           hidden |-> drag_hidden \cup drag_hidden_prop]
              /\ startLocal' = [e \in DragEntities |->
                    IF e \in Started(ui_events) THEN drag_local[e]
                    ELSE startLocal[e]]
    /\ frames' = frames + 1
    /\ UNCHANGED <<mouse, draggable, drag_scale_mode, drag_hidden, drag_hidden_prop>>
    /\ UNCHANGED <<dvars, lvars, bvars, rvars>>

\* The events of the channel that came from the pointer.
Clicks(evs) ==
    Select(evs, {ev \in {evs[i] : i \in 1..Len(evs)} :
                    ev.event_type \in {"ClickStart", "ClickStop"}})

NoFrame == [ran |-> FALSE]

\* The UI event system reports a press or a release on an entity; a frame
\* brings no more of them than there are widgets.
ui_event ==
    /\ frames < MaxFrames
    /\ Len(Clicks(ui_events)) < Cardinality(DragEntities)
    /\ \E e \in DragEntities :
          \E ev \in {ClickStart(e), ClickStop(e)} :
              ui_events' = Append(ui_events, ev)
    /\ frame' = NoFrame
    /\ UNCHANGED <<record, drag_local, drag_scale_mode, draggable, drag_hidden,
                   drag_hidden_prop, mouse, drag_out, frames, startLocal>>
    /\ UNCHANGED <<dvars, lvars, bvars, rvars>>

\* The pointer moves, or leaves the window.
mouse_moved ==
    /\ frames < MaxFrames
    /\ \E p \in MousePositions \ {mouse} : mouse' = p
    /\ frame' = NoFrame
    /\ UNCHANGED <<record, drag_local, drag_scale_mode, draggable, drag_hidden,
                   drag_hidden_prop, ui_events, drag_out, frames, startLocal>>
    /\ UNCHANGED <<dvars, lvars, bvars, rvars>>

\* The widgets that are hidden directly, and those hidden through a parent.
HiddenDirectly == {"d1"}
HiddenByParent == {"d2"}

\* A widget is hidden, directly or through its parent, or shown again.
hide ==
    /\ frames < MaxFrames
    /\ \/ \E e \in HiddenDirectly \ drag_hidden :
             /\ drag_hidden' = drag_hidden \cup {e}
             /\ UNCHANGED drag_hidden_prop
       \/ \E e \in HiddenByParent \ drag_hidden_prop :
             /\ drag_hidden_prop' = drag_hidden_prop \cup {e}
             /\ UNCHANGED drag_hidden
       \/ \E e \in drag_hidden \cup drag_hidden_prop :
             /\ drag_hidden' = drag_hidden \ {e}
             /\ drag_hidden_prop' = drag_hidden_prop \ {e}
    /\ frame' = NoFrame
    /\ UNCHANGED <<record, drag_local, drag_scale_mode, draggable, mouse,
                   ui_events, drag_out, frames, startLocal>>
    /\ UNCHANGED <<dvars, lvars, bvars, rvars>>

\* DragWidgetSystem::new, in a world whose widgets rest at the origin.
GInit ==
    /\ record = [e \in DragEntities |-> NoRecord]
    /\ drag_local = [e \in DragEntities |-> <<R(0), R(0)>>]
    /\ drag_scale_mode = [e \in DragEntities |->
                              IF e = "d1" THEN "Pixel" ELSE "Percent"]
    /\ draggable \in {{"d1"}, DragEntities}
    /\ drag_hidden = {}
    /\ drag_hidden_prop = {}
    /\ mouse = NoMouse
    /\ ui_events = <<>>
    /\ drag_out = <<>>
    /\ frame = NoFrame
    /\ frames = 0
    /\ startLocal = drag_local

DragUnused ==
    /\ record = <<>>
    /\ drag_local = <<>>
    /\ drag_scale_mode = <<>>
    /\ draggable = {}
    /\ drag_hidden = {}
    /\ drag_hidden_prop = {}
    /\ mouse = NoMouse
    /\ ui_events = <<>>
    /\ drag_out = <<>>
    /\ frame = NoFrame
    /\ frames = 0
    /\ startLocal = <<>>

(***************************************************************************)
(* Specifications                                                          *)
(***************************************************************************)
\* Resources::default(), or with MyResource inserted before the build.
DInit ==
    /\ items = <<>>
    /\ added = 0
    /\ usedBundles = {}
    /\ dispatcher = NoDispatcher
    /\ buildResult = <<"none", 0>>
    /\ lastItems = <<>>
    /\ loadLog = <<>>
    /\ unloadLog = <<>>
    /\ unloadResult = <<"none", 0>>
    /\ resources \in SUBSET {4}
    /\ preResources = resources
    /\ execPc = 0
    /\ execLog = <<>>
    /\ executed = FALSE

\* The dispatcher state while the layout is what is looked at.
DispatcherUnused ==
    /\ items = <<>>
    /\ added = 0
    /\ usedBundles = {}
    /\ dispatcher = NoDispatcher
    /\ buildResult = <<"none", 0>>
    /\ lastItems = <<>>
    /\ loadLog = <<>>
    /\ unloadLog = <<>>
    /\ unloadResult = <<"none", 0>>
    /\ resources = {}
    /\ preResources = {}
    /\ execPc = 0
    /\ execLog = <<>>
    /\ executed = FALSE

Init == DInit /\ LayoutUnused /\ BlinkUnused /\ ResizeUnused /\ DragUnused

Next ==
    \/ add_system
    \/ flush
    \/ add_thread_local_fn
    \/ add_thread_local
    \/ add_bundle
    \/ build
    \/ unload
    \/ execute_begin
    \/ run_systems
    \/ run_flush
    \/ run_thread_local

Spec == Init /\ [][Next]_vars

LayoutInit == DispatcherUnused /\ LInit /\ BlinkUnused /\ ResizeUnused /\ DragUnused

LayoutNext ==
    \/ ui_transform_system
    \/ resize
    \/ modify_transform

LayoutSpec == LayoutInit /\ [][LayoutNext]_vars

BlinkInit == DispatcherUnused /\ LayoutUnused /\ BInit /\ ResizeUnused /\ DragUnused

BlinkNext ==
    \/ blink_system
    \/ flush_commands

BlinkSpec == BlinkInit /\ [][BlinkNext]_vars

ResizeInit == DispatcherUnused /\ LayoutUnused /\ BlinkUnused /\ RInit /\ DragUnused

ResizeNext ==
    \/ resize_system
    \/ insert_resize
    \/ modify_resize
    \/ remove_resize
    \/ window_resized

ResizeSpec == ResizeInit /\ [][ResizeNext]_vars

\* The dispatcher runs the system in every frame.
ResizeFairSpec == ResizeSpec /\ WF_vars(resize_system)

DragInit == DispatcherUnused /\ LayoutUnused /\ BlinkUnused /\ ResizeUnused /\ GInit

DragNext ==
    \/ drag_widget_system
    \/ ui_event
    \/ mouse_moved
    \/ hide

DragSpec == DragInit /\ [][DragNext]_vars

(***************************************************************************)
(* What the dispatcher properties are stated over                          *)
(***************************************************************************)
Steps == dispatcher.steps
Retained == dispatcher.bundles
HasDispatcher == dispatcher.status # "none"
ThreadLocalKinds == {"ThreadLocalFn", "ThreadLocalSystem"}

SeqSet(seq) == {seq[i] : i \in 1..Len(seq)}
Count(seq, x) == Cardinality({i \in 1..Len(seq) : seq[i] = x})
Pos(seq, x) == CHOOSE i \in 1..Len(seq) : seq[i] = x
IsPrefix(p, q) == Len(p) <= Len(q) /\ SubSeq(q, 1, Len(p)) = p

RECURSIVE BundleSeq(_)
BundleSeq(log) ==
    IF log = <<>> THEN <<>> ELSE <<Head(log).bundle>> \o BundleSeq(Tail(log))

RECURSIVE SortedSeq(_)
SortedSeq(S) ==
    IF S = {} THEN <<>>
    ELSE LET m == CHOOSE x \in S : \A y \in S : x <= y
         IN  <<m>> \o SortedSeq(S \ {m})

\* The item list with every bundle replaced by the items its load adds.
RECURSIVE Expand(_)
Expand(its) ==
    IF its = <<>> THEN <<>>
    ELSE (IF Head(its).kind = "SystemBundle"
          THEN Expand(BundleItems(Head(its).name))
          ELSE <<Head(its)>>) \o Expand(Tail(its))

\* The bundles of an item list, a bundle before the bundles nested in it.
RECURSIVE PreOrder(_)
PreOrder(its) ==
    IF its = <<>> THEN <<>>
    ELSE (IF Head(its).kind = "SystemBundle"
          THEN <<Head(its).name>> \o PreOrder(BundleItems(Head(its).name))
          ELSE <<>>) \o PreOrder(Tail(its))

\* The bundles of an item list, a bundle after the bundles nested in it.
RECURSIVE PostOrder(_)
PostOrder(its) ==
    IF its = <<>> THEN <<>>
    ELSE (IF Head(its).kind = "SystemBundle"
          THEN PostOrder(BundleItems(Head(its).name)) \o <<Head(its).name>>
          ELSE <<>>) \o PostOrder(Tail(its))

RECURSIVE SystemItems(_)
SystemItems(names) ==
    IF names = <<>> THEN <<>>
    ELSE <<System(Head(names))>> \o SystemItems(Tail(names))

\* The items a step was made from.
StepItems(step) ==
    CASE step.kind = "Systems" -> SystemItems(step.systems)
      [] step.kind = "FlushCmdBuffers" -> <<FlushCmdBuffers>>
      [] step.kind = "ThreadLocalFn" -> <<ThreadLocalFn(step.systems[1])>>
      [] step.kind = "ThreadLocalSystem" -> <<ThreadLocalSystem(step.systems[1])>>

RECURSIVE Flatten(_)
Flatten(steps) ==
    IF steps = <<>> THEN <<>>
    ELSE StepItems(Head(steps)) \o Flatten(Tail(steps))

\* The items the latest build processed, the implicit trailing flush included.
BuiltFrom == Append(Expand(lastItems), FlushCmdBuffers)

S3Items == <<System("A"), ThreadLocalSystem("T"), System("B")>>

(***************************************************************************)
(* C1                                                                      *)
(***************************************************************************)
\* C1 as stated: in every built schedule a thread-local step never directly
\* follows an Executor step, and A, T, B builds
\* [Executor(A), FlushBarrier, ThreadLocal(T), Executor(B), FlushBarrier].
C1_BarrierBeforeThreadLocal ==
    HasDispatcher =>
        /\ \A i \in 2..Len(Steps) :
              Steps[i].kind \in ThreadLocalKinds => Steps[i - 1].kind # "Systems"
        /\ lastItems = S3Items =>
              Steps = <<StepSystems(<<"A">>), StepFlushCmdBuffers,
                        StepThreadLocalSystem("T"), StepSystems(<<"B">>),
                        StepFlushCmdBuffers>>

\* C1 amended: the steps that are not Executors are exactly the thread-local
\* and flush items of the build, in order (no FlushBarrier is inserted), and
\* such a step directly follows an Executor step exactly when its item
\* directly follows a parallel system; A, T, B builds
\* [Executor(A), ThreadLocal(T), Executor(B), FlushBarrier].
C1_ThreadLocalDirectlyAfterExecutor ==
    HasDispatcher =>
        LET E  == BuiltFrom
            np == SortedSeq({k \in 1..Len(E) : E[k].kind # "System"})
            sp == SortedSeq({i \in 1..Len(Steps) : Steps[i].kind # "Systems"})
        IN  /\ Len(np) = Len(sp)
            /\ \A j \in 1..Len(sp) :
                  /\ StepItems(Steps[sp[j]]) = <<E[np[j]]>>
                  /\ (sp[j] > 1 /\ Steps[sp[j] - 1].kind = "Systems")
                        <=> (np[j] > 1 /\ E[np[j] - 1].kind = "System")
            /\ lastItems = S3Items =>
                  Steps = <<StepSystems(<<"A">>), StepThreadLocalSystem("T"),
                            StepSystems(<<"B">>), StepFlushCmdBuffers>>

C1_Witness ==
    /\ dispatcher.status = "built"
    /\ lastItems = S3Items
    /\ Steps[2].kind = "ThreadLocalSystem"
    /\ Steps[1].kind = "Systems"

(***************************************************************************)
(* C2                                                                      *)
(***************************************************************************)
\* C2: the built schedule lists the added items in insertion order (reading
\* the systems of each Executor in order), and every maximal run of
\* consecutive parallel systems is exactly one Executor step.
C2_OrderPreservedRunsFused ==
    HasDispatcher =>
        /\ Flatten(Steps) = BuiltFrom
        /\ \A i \in 1..Len(Steps) :
              Steps[i].kind = "Systems" => Steps[i].systems # <<>>
        /\ \A i \in 2..Len(Steps) :
              ~(Steps[i].kind = "Systems" /\ Steps[i - 1].kind = "Systems")
        /\ Cardinality({i \in 1..Len(Steps) : Steps[i].kind = "Systems"})
              = Cardinality({k \in 1..Len(BuiltFrom) :
                    /\ BuiltFrom[k].kind = "System"
                    /\ (k = 1 \/ BuiltFrom[k - 1].kind # "System")})
        /\ lastItems = <<System("A"), System("B"), FlushCmdBuffers, System("B"),
                         System("A")>> =>
              Steps = <<StepSystems(<<"A", "B">>), StepFlushCmdBuffers,
                        StepSystems(<<"B", "A">>), StepFlushCmdBuffers>>

C2_Witness ==
    /\ dispatcher.status = "built"
    /\ lastItems = <<System("A"), System("B"), FlushCmdBuffers, System("B")>>
    /\ Steps = <<StepSystems(<<"A", "B">>), StepFlushCmdBuffers,
                 StepSystems(<<"B">>), StepFlushCmdBuffers>>

(***************************************************************************)
(* C3                                                                      *)
(***************************************************************************)
LoadedOk == {loadLog[i].bundle : i \in {k \in 1..Len(loadLog) : loadLog[k].ok}}

\* C3 as stated: after a successful build every bundle whose load succeeded
\* is retained, and Dispatcher::unload invokes unload on each exactly once.
C3_EveryLoadedBundleUnloadedOnce ==
    /\ HasDispatcher => SeqSet(Retained) = LoadedOk
    /\ dispatcher.status = "unloaded" =>
          \A b \in LoadedOk : Count(BundleSeq(unloadLog), b) = 1

\* C3 amended: after a successful build every bundle whose load succeeded is
\* retained once; Dispatcher::unload invokes unload at most once on each of
\* them and on nothing else, and exactly once on each when it returns Ok.
C3_LoadedRetainedUnloadedOnceIfOk ==
    /\ HasDispatcher =>
          /\ SeqSet(Retained) = LoadedOk
          /\ \A b \in LoadedOk : Count(Retained, b) = 1
          /\ Len(loadLog) = Cardinality(LoadedOk)
    /\ dispatcher.status = "unloaded" =>
          /\ SeqSet(BundleSeq(unloadLog)) \subseteq LoadedOk
          /\ \A b \in LoadedOk : Count(BundleSeq(unloadLog), b) <= 1
          /\ unloadResult[1] = "Ok" =>
                \A b \in LoadedOk : Count(BundleSeq(unloadLog), b) = 1

C3_Witness ==
    /\ dispatcher.status = "unloaded"
    /\ unloadResult[1] = "Ok"
    /\ LoadedOk = {1, 2, 3, 4}
    /\ Len(unloadLog) = 4

C5_LoadErrorAbortsBuild ==
    buildResult[1] = "Err" =>
        LET n == Len(loadLog)
        IN  /\ dispatcher = NoDispatcher
            /\ n >= 1
            /\ loadLog[n] = [bundle |-> buildResult[2], ok |-> FALSE]
            /\ \A i \in 1..(n - 1) : loadLog[i].ok
            /\ IsPrefix(BundleSeq(loadLog), PreOrder(lastItems))
            /\ unloadLog = <<>>
            /\ resources = preResources \cup
                  UNION {BundleResource(b) : b \in LoadedOk}

C5_Witness ==
    /\ buildResult = <<"Err", 2>>
    /\ BundleSeq(loadLog) = <<4, 1, 2>>
    /\ PreOrder(lastItems) = <<4, 1, 2, 3>>
    /\ {1, 4} \subseteq resources

(***************************************************************************)
(* C6                                                                      *)
(***************************************************************************)
UnloadStopsAtFirstError ==
    unloadResult[1] = "Err" =>
        LET n == Len(unloadLog)
        IN  /\ n >= 1
            /\ unloadLog[n] = [bundle |-> unloadResult[2], ok |-> FALSE]
            /\ \A i \in 1..(n - 1) : unloadLog[i].ok
            /\ n <= Len(Retained)
            /\ BundleSeq(unloadLog) = SubSeq(Retained, 1, n)
            /\ \A i \in n..Len(Retained) : BundleResource(Retained[i]) \subseteq resources

\* C6: Dispatcher::unload stops at the first bundle whose unload returns an
\* error and returns it: the bundles before it were unloaded once, none
\* after it is unloaded, and unload runs no schedule step.
C6_UnloadStopsAtFirstError ==
    /\ []UnloadStopsAtFirstError
    /\ [][(dispatcher.status = "built" /\ dispatcher'.status = "unloaded")
              => UNCHANGED <<execPc, execLog, executed>>]_vars

C6_Witness ==
    /\ unloadResult = <<"Err", 2>>
    /\ Retained = <<4, 3, 2, 1>>
    /\ BundleSeq(unloadLog) = <<4, 3, 2>>
    /\ 1 \in resources

(***************************************************************************)
(* C7                                                                      *)
(***************************************************************************)
RetainedResources == UNION {BundleResource(b) : b \in SeqSet(Retained)}

\* C7 as stated: the resource a bundle inserts in load and removes in unload
\* is present after a successful build and absent after a successful
\* unload, and Resources are then what they were before the build.
C7_RoundTripRestoresResources ==
    /\ dispatcher.status = "built" => RetainedResources \subseteq resources
    /\ (dispatcher.status = "unloaded" /\ unloadResult[1] = "Ok") =>
          /\ RetainedResources \cap resources = {}
          /\ resources = preResources

\* C7 amended: present after a successful build, absent after a successful
\* unload; Resources are then what they were before the build less the
\* bundles' resources, so a resource that was present before the build is
\* removed too.
C7_RoundTripRemovesResource ==
    /\ dispatcher.status = "built" =>
          /\ RetainedResources \subseteq resources
          /\ resources = preResources \cup RetainedResources
    /\ (dispatcher.status = "unloaded" /\ unloadResult[1] = "Ok") =>
          /\ RetainedResources \cap resources = {}
          /\ resources = preResources \ RetainedResources

C7_Witness ==
    /\ dispatcher.status = "unloaded"
    /\ unloadResult[1] = "Ok"
    /\ Retained = <<4>>
    /\ preResources = {}
    /\ resources = {}

(***************************************************************************)
(* C8                                                                      *)
(***************************************************************************)
StepUnits(step) == IF step.kind = "FlushCmdBuffers" THEN <<"-">> ELSE step.systems

RECURSIVE UnitLog(_, _)
UnitLog(i, units) ==
    IF units = <<>> THEN <<>> ELSE <<<<i, Head(units)>>>> \o UnitLog(i, Tail(units))

\* Every unit of steps from..to once, in schedule order.
RECURSIVE ExpectedLog(_, _, _)
ExpectedLog(steps, from, to) ==
    IF from > to THEN <<>>
    ELSE UnitLog(from, StepUnits(steps[from])) \o ExpectedLog(steps, from + 1, to)

\* C8: an execute call runs every step of the schedule once, in schedule
\* order, a step finishing before the next begins; when it returns every
\* system added with add_system has run.
C8_ExecuteRunsScheduleInOrder ==
    /\ \A i \in 1..(Len(execLog) - 1) : execLog[i][1] <= execLog[i + 1][1]
    /\ execPc > 0 => execLog = ExpectedLog(Steps, 1, execPc - 1)
    /\ executed =>
          /\ execLog = ExpectedLog(Steps, 1, Len(Steps))
          /\ \A k \in 1..Len(lastItems) :
                lastItems[k].kind = "System" =>
                    \E j \in 1..Len(execLog) : execLog[j][2] = lastItems[k].name

C8_Witness ==
    /\ executed
    /\ lastItems = S3Items
    /\ Len(execLog) = 4


(***************************************************************************)
(* Layout claims                                                           *)
(***************************************************************************)
\* The resolved output of a UiTransform.
Out(t) == <<t.pixel_x, t.pixel_y, t.pixel_width, t.pixel_height, t.global_z>>

\* The strict depth-first pre-order resolution of entity e from the inputs
\* ts: a child is resolved from its parent as resolved in this same pass.
RECURSIVE DepthFirst(_, _, _, _)
DepthFirst(ts, par, sd, e) ==
    IF par[e] = NoParent THEN process_root(ts[e], sd)
    ELSE IF par[e] \notin Entities THEN ts[e]
    ELSE process_child(ts[e], DepthFirst(ts, par, sd, par[e]))

RECURSIVE Depth(_, _)
Depth(par, e) == IF par[e] \notin Entities THEN 0 ELSE 1 + Depth(par, par[e])

\* C9: after one run of the layout system, the resolved output of every
\* entity is what a strict depth-first pre-order traversal of the forest
\* yields from the transforms the run started with.
C9_EqualsDepthFirst ==
    runs >= 1 =>
        \A e \in Entities :
            Out(transforms[e]) = Out(DepthFirst(preTransforms, parent, screen_dim, e))

\* C10: a second run of the layout system, with the same screen, the same
\* hierarchy and no modification in between, leaves the resolved output of
\* every entity as the first run left it.
C10_SecondRunSameOutput ==
    runs = 2 => \A e \in Entities : Out(transforms[e]) = Out(preTransforms[e])

\* The pixel box of a UiTransform, and the fields the scenarios give.
Box(t) == <<t.pixel_x, t.pixel_y, t.pixel_width, t.pixel_height>>
Inputs(t) == <<t.anchor, t.pivot, t.width, t.height, t.local_x, t.local_y,
               t.scale_mode, t.stretch>>
IsRoot(e) == parent[e] = NoParent
IsChildOfRoot(e) == parent[e] \in Entities /\ parent[parent[e]] = NoParent

\* C11 (as stated): on the 800x600 screen the root of S4 resolves to
\* pixel_x = 10, pixel_y = 620, pixel_width = 100, pixel_height = 50.
C11_S4WithoutPivot ==
    (runs >= 1 /\ screen_dim = <<R(800), R(600)>>) =>
        \A e \in Entities :
            (IsRoot(e) /\ Inputs(preTransforms[e]) = Inputs(S4Root)) =>
                Box(transforms[e]) = <<R(10), R(620), R(100), R(50)>>

\* C11 (amended): on the 800x600 screen the root of S4 resolves to
\* pixel_x = 60, pixel_y = 595, pixel_width = 100, pixel_height = 50: the
\* TopLeft pivot moves the box by (+width/2, -height/2).
C11_S4WithPivot ==
    (runs >= 1 /\ screen_dim = <<R(800), R(600)>>) =>
        \A e \in Entities :
            (IsRoot(e) /\ Inputs(preTransforms[e]) = Inputs(S4Root)) =>
                Box(transforms[e]) = <<R(60), R(595), R(100), R(50)>>

C11_Witness ==
    /\ runs >= 1
    /\ screen_dim = <<R(800), R(600)>>
    /\ IsRoot("e1")
    /\ Inputs(preTransforms["e1"]) = Inputs(S4Root)
    /\ Box(transforms["e1"]) = <<R(60), R(595), R(100), R(50)>>

\* C12 (as stated): a child with the fields of S5 whose parent is resolved
\* at (0, 0, 200, 100) resolves to pixel_x = 0, pixel_y = 0,
\* pixel_width = 200, pixel_height = 100.
C12_S5ChildFillsParent ==
    runs >= 1 =>
        \A e \in Entities :
            ( /\ IsChildOfRoot(e)
              /\ Inputs(preTransforms[e]) = Inputs(S5Child)
              /\ Box(transforms[parent[e]]) = <<R(0), R(0), R(200), R(100)>> ) =>
                Box(transforms[e]) = <<R(0), R(0), R(200), R(100)>>

\* C12 (amended): that child resolves to pixel_x = 0, pixel_y = 0,
\* pixel_width = 40000, pixel_height = 10000: the stretch sets width and
\* height to the parent's 200 and 100, and Percent multiplies them by the
\* parent's size once more.
C12_S5ChildSquaresParent ==
    runs >= 1 =>
        \A e \in Entities :
            ( /\ IsChildOfRoot(e)
              /\ Inputs(preTransforms[e]) = Inputs(S5Child)
              /\ Box(transforms[parent[e]]) = <<R(0), R(0), R(200), R(100)>> ) =>
                Box(transforms[e]) = <<R(0), R(0), R(40000), R(10000)>>

C12_Witness ==
    /\ runs >= 1
    /\ IsChildOfRoot("e2")
    /\ Inputs(preTransforms["e2"]) = Inputs(S5Child)
    /\ Box(transforms["e1"]) = <<R(0), R(0), R(200), R(100)>>
    /\ Box(transforms["e2"]) = <<R(0), R(0), R(40000), R(10000)>>

\* A root as the symmetry property describes it.
IsCentred(t) ==
    /\ t.stretch = NoStretch
    /\ t.scale_mode = "Pixel"
    /\ t.local_x = R(0)
    /\ t.anchor = "Middle"
    /\ t.pivot = "Middle"

\* C13 (as stated): a root with NoStretch, Pixel, local_x = 0 and
\* anchor = pivot = Middle resolves to pixel_x = screen_w / 2 and
\* pixel_y = screen_h / 2.
C13_CentredRootAtScreenCentre ==
    runs >= 1 =>
        \A e \in Entities :
            (IsRoot(e) /\ IsCentred(preTransforms[e])) =>
                /\ transforms[e].pixel_x = RDiv(screen_dim[1], R(2))
                /\ transforms[e].pixel_y = RDiv(screen_dim[2], R(2))

\* C13 (amended): such a root resolves to pixel_x = screen_w / 2 and
\* pixel_y = screen_h / 2 + local_y.
C13_CentredRootPlusLocalY ==
    runs >= 1 =>
        \A e \in Entities :
            (IsRoot(e) /\ IsCentred(preTransforms[e])) =>
                /\ transforms[e].pixel_x = RDiv(screen_dim[1], R(2))
                /\ transforms[e].pixel_y =
                       RAdd(RDiv(screen_dim[2], R(2)), preTransforms[e].local_y)

C13_Witness ==
    /\ runs >= 1
    /\ IsRoot("e3")
    /\ IsCentred(preTransforms["e3"])
    /\ preTransforms["e3"].local_y = R(30)
    /\ screen_dim = <<R(800), R(600)>>
    /\ transforms["e3"].pixel_x = R(400)
    /\ transforms["e3"].pixel_y = R(330)

\* Equality of two f32 values: a NaN is equal to nothing.
FEq(x, y) == ~IsNaN(x) /\ ~IsNaN(y) /\ x = y
NonZeroFinite(x) == IsFinite(x) /\ x[1] # 0
KeepsAspect(t) == t.stretch.kind = "XY" /\ t.stretch.keep_aspect_ratio
IsResolved(e) == IsRoot(e) \/ parent[e] \in Entities

\* C14 (as stated): for an entity with stretch = XY{keep_aspect_ratio = true}
\* the ratio width / height after a layout run equals the ratio before it.
C14_AspectRatioKept ==
    runs >= 1 =>
        \A e \in Entities :
            (IsResolved(e) /\ KeepsAspect(preTransforms[e])) =>
                FEq(RDiv(transforms[e].width, transforms[e].height),
                    RDiv(preTransforms[e].width, preTransforms[e].height))

\* C14 (amended): the ratio is kept whenever width and height are nonzero
\* and finite before the run and after it; a run that finds no room (an
\* available width or height of 0) sets both to 0, and the ratio is lost.
C14_AspectRatioKeptUnlessCollapsed ==
    runs >= 1 =>
        \A e \in Entities :
            ( /\ IsResolved(e)
              /\ KeepsAspect(preTransforms[e])
              /\ NonZeroFinite(preTransforms[e].width)
              /\ NonZeroFinite(preTransforms[e].height)
              /\ NonZeroFinite(transforms[e].width)
              /\ NonZeroFinite(transforms[e].height) ) =>
                FEq(RDiv(transforms[e].width, transforms[e].height),
                    RDiv(preTransforms[e].width, preTransforms[e].height))

\* A root of 4x2 is scaled by 3/2 to 6x3 on the 8x6 screen with margins 1.
C14_Witness ==
    /\ runs >= 1
    /\ \E e \in Entities :
          /\ IsRoot(e)
          /\ KeepsAspect(preTransforms[e])
          /\ preTransforms[e].width = R(4)
          /\ preTransforms[e].height = R(2)
          /\ transforms[e].width = R(6)
          /\ transforms[e].height = R(3)

\* C15: after a layout run, a child with scale_mode = Percent, NoStretch,
\* local_x = local_y = 0, width = height = 1 and anchor = pivot = Middle has
\* the pixel box its parent has after that run, whether the parent is a
\* root or a child itself.
C15_ChildBoxEqualsParentBox ==
    runs >= 1 =>
        \A e \in Entities :
            (parent[e] \in Entities
                /\ Inputs(preTransforms[e]) = Inputs(ContainedChild)) =>
                Box(transforms[e]) = Box(transforms[parent[e]])

HasMissingParent(e) == parent[e] # NoParent /\ parent[e] \notin Entities

\* C16: a layout run leaves every field of the UiTransform of an entity
\* whose Parent has no UiTransform as it was before the run (and the run
\* itself completes: it is a step of the system like any other).
C16_MissingParentSkipped ==
    runs >= 1 =>
        \A e \in Entities :
            HasMissingParent(e) => transforms[e] = preTransforms[e]

\* A run that resolved the root differently and skipped the orphan.
C16_Witness ==
    /\ runs >= 1
    /\ HasMissingParent("e3")
    /\ transforms["e3"] = preTransforms["e3"]
    /\ transforms["e1"] # preTransforms["e1"]

(***************************************************************************)
(* Blink claims                                                            *)
(***************************************************************************)
\* visible = timer < delay / 2
Visible(e) == On(blinks[e])

\* C17: after a BlinkSystem run and the flush of its commands, an entity
\* carries Hidden exactly when it is not visible (timer < delay / 2 is
\* visible); and a run issues a command only for an entity whose marker
\* does not match: add Hidden for a not visible entity without it, remove
\* Hidden for a visible entity with it.
C17_HiddenExactlyWhenNotVisible ==
    /\ (blinkPc = "flushed" /\ blinkRuns = 1) =>
           hidden = {e \in BlinkEntities : ~Visible(e)}
    /\ blinkPc = "updated" =>
           \A i \in 1..Len(commands) :
               LET c == commands[i]
               IN  IF c.op = "add_component"
                   THEN ~Visible(c.entity) /\ c.entity \notin hidden
                   ELSE Visible(c.entity) /\ c.entity \in hidden

C19_AllOnResizeElseModifiedOnly ==
    lastRun.ran =>
        IF lastRun.resized
        THEN /\ \A e \in ui_resize : calls[e] = 1
             /\ callSize = dimensions
             /\ resize_screen_size = dimensions
        ELSE \A e \in ResizeEntities : calls[e] > 0 => e \in lastRun.modified

\* C19 (amended): as stated, for the entities that have a UiTransform as
\* well as a UiResize; the function of no other entity is called.
C19_AllWithTransformOnResizeElseModifiedOnly ==
    lastRun.ran =>
        /\ \A e \in ResizeEntities \ (ui_resize \cap has_transform) : calls[e] = 0
        /\ IF lastRun.resized
           THEN /\ \A e \in ui_resize \cap has_transform : calls[e] = 1
                /\ callSize = dimensions
                /\ resize_screen_size = dimensions
           ELSE \A e \in ResizeEntities : calls[e] > 0 => e \in lastRun.modified

\* A run on a resized screen after an earlier run: both functions called.
C19_Witness ==
    /\ lastRun.ran
    /\ lastRun.resized
    /\ lastRun.modified = {}
    /\ calls = [e \in ResizeEntities |-> 1]
    /\ callSize = <<1024, 768>>
    /\ resize_screen_size = <<1024, 768>>

(***************************************************************************)
(* Schedule shape                                                          *)
(***************************************************************************)
\* C20: in every built schedule each Executor step holds at least one
\* system and no two Executor steps are adjacent.
C20_ExecutorsNonEmptyNeverAdjacent ==
    HasDispatcher =>
        \A i \in 1..Len(Steps) :
            Steps[i].kind = "Systems" =>
                /\ Len(Steps[i].systems) >= 1
                /\ i < Len(Steps) => Steps[i + 1].kind # "Systems"

\* A schedule built from a flush with no pending system, systems on both
\* sides of a thread-local item, and a bundle with nested bundles.
C20_Witness ==
    /\ HasDispatcher
    /\ Len(lastItems) >= 2
    /\ lastItems[1] = FlushCmdBuffers
    /\ \E i \in 1..Len(lastItems) : lastItems[i] = SystemBundle(1)
    /\ Len(Steps) >= 4
    /\ Steps[1] = StepFlushCmdBuffers
    /\ \E i, j \in 1..Len(Steps) :
          i < j /\ Steps[i].kind = "Systems" /\ Steps[j].kind = "Systems"

\* C21: the schedule of a successful build ends with a flush step, the
\* empty builder gives exactly one flush step, every system of the builder
\* is in some Executor of the schedule, and every Executor has a flush step
\* somewhere after it.
C21_ScheduleEndsWithFlush ==
    dispatcher.status = "built" =>
        /\ Len(Steps) >= 1
        /\ Steps[Len(Steps)] = StepFlushCmdBuffers
        /\ lastItems = <<>> => Steps = <<StepFlushCmdBuffers>>
        /\ \A k \in 1..Len(BuiltFrom) :
              BuiltFrom[k].kind = "System" =>
                  \E i \in 1..Len(Steps) :
                      /\ Steps[i].kind = "Systems"
                      /\ BuiltFrom[k].name \in SeqSet(Steps[i].systems)
        /\ \A i \in 1..Len(Steps) :
              Steps[i].kind = "Systems" =>
                  \E j \in (i + 1)..Len(Steps) : Steps[j] = StepFlushCmdBuffers

\* A builder whose last item is a system: the closing flush ends its Executor.
C21_Witness ==
    /\ dispatcher.status = "built"
    /\ Len(lastItems) >= 2
    /\ lastItems[Len(lastItems)].kind = "System"
    /\ Len(Steps) >= 2
    /\ Steps[Len(Steps)] = StepFlushCmdBuffers
    /\ Steps[Len(Steps) - 1].kind = "Systems"

\* C22: the schedule built from a builder equals the schedule built from the
\* builder's items with every bundle replaced, where it stands, by the items
\* its load adds, nested bundles included; so no step is added around a
\* bundle.
C22_BundleIsSpliced ==
    dispatcher.status = "built" =>
        Steps = LoadItems(BuiltFrom, DefaultData({}), {}).steps

\* System A, then bundle 1 (C, the nested D, P, Q, and thread-local U),
\* then system B: A fuses with the bundle's systems into one Executor.
C22_Witness ==
    /\ dispatcher.status = "built"
    /\ lastItems = <<System("A"), SystemBundle(1), System("B")>>
    /\ Steps = << StepSystems(<<"A", "C", "D", "P", "Q">>),
                  StepThreadLocalSystem("U"),
                  StepSystems(<<"B">>),
                  StepFlushCmdBuffers >>

(***************************************************************************)
(* What the drag properties are stated over: the state a run leaves, and   *)
(* in `frame` the state and the events it started from.                    *)
(***************************************************************************)
\* The entity is tracked when event i of the frame is read (i may be one
\* past the last event: when the event loop is over).
TrackedAt(e, i) ==
    \/ frame.record[e].tracked
    \/ \E j \in 1..(i - 1) : frame.events[j] = ClickStart(e) /\ e \in draggable

TrackedInFrame(e) == TrackedAt(e, Len(frame.events) + 1)

\* A tracked entity receives ClickStop, or carries Hidden or HiddenPropagate.
ReleasedInFrame(e) ==
    \/ \E i \in 1..Len(frame.events) :
          frame.events[i] = ClickStop(e) /\ TrackedAt(e, i)
    \/ TrackedInFrame(e) /\ e \in frame.hidden

\* The places of the events of one type the run wrote for the entity.
Written(e, type) ==
    {i \in 1..Len(drag_out) :
        drag_out[i].target = e /\ drag_out[i].event_type = type}

\* last_mouse of the entity when the dragging loop reaches it.
LastMouse(e) ==
    IF e \in Started(frame.events) THEN frame.mouse ELSE frame.record[e].prev

\* C23: a run writes exactly one Dropped event for every tracked entity that
\* receives ClickStop or carries Hidden or HiddenPropagate, and none for any
\* other entity; the released entity is not tracked when the run is over;
\* for an entity that is not tracked in the frame (a ClickStop for it
\* included) the run writes no event, tracks nothing and moves nothing.
C23_ReleaseDropsOnce ==
    frame.ran =>
        \A e \in DragEntities :
            /\ ReleasedInFrame(e) =>
                  /\ Cardinality(Written(e, "Dropped")) = 1
                  /\ ~record[e].tracked
            /\ ~ReleasedInFrame(e) => Written(e, "Dropped") = {}
            /\ ~TrackedInFrame(e) =>
                  /\ \A i \in 1..Len(drag_out) : drag_out[i].target # e
                  /\ ~record[e].tracked
                  /\ drag_local[e] = frame.local[e]

\* One entity is released by a ClickStop while the frame also brings a
\* ClickStop for an entity that is not tracked.
C23_Witness ==
    /\ frame.ran
    /\ \E e \in DragEntities, o \in DragEntities :
          /\ e # o
          /\ frame.record[e].tracked
          /\ ClickStop(e) \in SeqSet(frame.events)
          /\ Cardinality(Written(e, "Dropped")) = 1
          /\ ~record[e].tracked
          /\ ~frame.record[o].tracked
          /\ ClickStop(o) \in SeqSet(frame.events)
          /\ \A i \in 1..Len(drag_out) : drag_out[i].target # o

\* C24 as stated: a run writes a Dragging event and moves the UiTransform
\* only for entities that are tracked and not released in the frame; a
\* released entity gets Dropped, no Dragging and no position change.
C24_DraggingOnlyIfNotReleased ==
    frame.ran =>
        \A e \in DragEntities :
            /\ (Written(e, "Dragging") # {} \/ drag_local[e] # frame.local[e]) =>
                  TrackedInFrame(e) /\ ~ReleasedInFrame(e)
            /\ ReleasedInFrame(e) =>
                  /\ Written(e, "Dropped") # {}
                  /\ Written(e, "Dragging") = {}
                  /\ drag_local[e] = frame.local[e]

\* C24, amended: a run writes exactly one Dragging event for every entity
\* that is tracked when the events are read, released or not, and moves it
\* by (mouse - last_mouse) through its scale mode; it writes none for, and
\* does not move, an entity that is not tracked; a released entity gets its
\* Dragging event and its move first and its Dropped event after it.
C24_DraggingForEveryTracked ==
    frame.ran =>
        \A e \in DragEntities :
            /\ Cardinality(Written(e, "Dragging")) =
                  IF TrackedInFrame(e) THEN 1 ELSE 0
            /\ drag_local[e] =
                  IF TrackedInFrame(e)
                  THEN Moved(e, frame.local[e], VSub(frame.mouse, LastMouse(e)))
                  ELSE frame.local[e]
            /\ ReleasedInFrame(e) =>
                  \A i \in Written(e, "Dragging"), j \in Written(e, "Dropped") :
                      i < j

\* An entity tracked since an earlier frame is released, and the run that
\* releases it still moves it and reports it as dragged.
C24_Witness ==
    /\ frame.ran
    /\ \E e \in DragEntities :
          /\ frame.record[e].tracked
          /\ ReleasedInFrame(e)
          /\ Written(e, "Dragging") # {}
          /\ Written(e, "Dropped") # {}
          /\ drag_local[e] # frame.local[e]
          /\ ~record[e].tracked

\* C25: an entity becomes tracked only in a run that reads a ClickStart for
\* it while it is Draggable, and its record is then (mouse, mouse); for a
\* tracked entity in Pixel mode a run adds (mouse - last_mouse) to local_x
\* and local_y and leaves last_mouse = mouse; so when a run is over the
\* entity's displacement since the ClickStart that set initial_mouse equals
\* mouse - initial_mouse, which is the offset_from_mouse of its Dragging
\* event.
C25_DisplacementIsOffset ==
    frame.ran =>
        \A e \in DragEntities :
            /\ (record[e].tracked /\ ~frame.record[e].tracked) =>
                  e \in Started(frame.events)
            /\ (record[e].tracked /\ e \in Started(frame.events)) =>
                  record[e] = Record(frame.mouse, frame.mouse)
            /\ (record[e].tracked /\ drag_scale_mode[e] = "Pixel") =>
                  /\ drag_local[e] =
                        << RAdd(frame.local[e][1],
                                RSub(frame.mouse[1], LastMouse(e)[1])),
                           RAdd(frame.local[e][2],
                                RSub(frame.mouse[2], LastMouse(e)[2])) >>
                  /\ record[e].prev = frame.mouse
                  /\ VSub(drag_local[e], startLocal[e]) =
                        VSub(frame.mouse, record[e].first)
                  /\ Dragging(e, VSub(frame.mouse, record[e].first), frame.mouse)
                        \in SeqSet(drag_out)

\* A widget in Pixel mode that was clicked on in an earlier frame has
\* followed the mouse away from where it was.
C25_Witness ==
    /\ frame.ran
    /\ \E e \in DragEntities :
          /\ drag_scale_mode[e] = "Pixel"
          /\ frame.record[e].tracked
          /\ record[e].tracked
          /\ record[e].first # frame.mouse
          /\ drag_local[e] # startLocal[e]
          /\ VSub(drag_local[e], startLocal[e]) = VSub(frame.mouse, record[e].first)

\* C26: a run that directly follows another run (nothing was attached,
\* changed or removed and the window kept its size in between) calls no
\* UiResize function, and no run leaves an event of its own in the channel.
C26_OwnEventsConsumed ==
    [][ /\ lastRun'.ran => channel' = {}
        /\ (lastRun.ran /\ lastRun'.ran) =>
              \A e \in ResizeEntities : calls'[e] = 0 ]_vars

\* A run that found the size unchanged and no event to read although some
\* entity has a UiTransform and a UiResize: the events of the earlier run
\* that called its function were read out by that run.
C26_Witness ==
    /\ lastRun.ran
    /\ ~lastRun.resized
    /\ lastRun.modified = {}
    /\ has_transform \cap ui_resize # {}
    /\ \A e \in ResizeEntities : calls[e] = 0
    /\ channel = {}

\* Frame deltas an update is tried with: those of Deltas, one equal to the
\* shorter delay and one beyond it.
StepDeltas == Deltas \cup {R(1), <<3, 2>>}

InPeriod(blink) == RLeq(R(0), blink.timer) /\ RLeq(blink.timer, blink.delay)

C28_BuildEmptiesBuilder ==
    buildResult[1] # "none" =>
        /\ items = <<>>
        /\ lastItems = <<>> =>
              /\ buildResult = <<"Ok", 0>>
              /\ loadLog = <<>>
              /\ Retained = <<>>
              /\ Steps = <<StepFlushCmdBuffers>>

\* Items and a bundle were added, and the latest build found the builder
\* empty: an earlier build had taken them.
C28_Witness ==
    /\ added > 0
    /\ usedBundles # {}
    /\ buildResult = <<"Ok", 0>>
    /\ dispatcher.status = "built"
    /\ items = <<>>
    /\ lastItems = <<>>
    /\ Retained = <<>>
    /\ Steps = <<StepFlushCmdBuffers>>

\* The fields of a UiTransform a layout pass is said not to write, width
\* and height apart.
Placement(t) ==
    <<t.local_x, t.local_y, t.local_z, t.anchor, t.pivot, t.stretch, t.scale_mode>>

\* C29 as stated: a layout pass leaves local_x, local_y, local_z, anchor,
\* pivot, stretch, scale_mode, width and height of every entity as they
\* were, whatever its stretch.
C29_InputsUnchanged ==
    runs >= 1 =>
        \A e \in Entities :
            /\ Placement(transforms[e]) = Placement(preTransforms[e])
            /\ transforms[e].width = preTransforms[e].width
            /\ transforms[e].height = preTransforms[e].height

\* C29, amended: a layout pass leaves local_x, local_y, local_z, anchor,
\* pivot, stretch and scale_mode of every entity as they were; it leaves
\* width as it was unless the stretch is X or XY and height as it was unless
\* the stretch is Y or XY.
C29_InputsUnchangedButStretchedSize ==
    runs >= 1 =>
        \A e \in Entities :
            /\ Placement(transforms[e]) = Placement(preTransforms[e])
            /\ preTransforms[e].stretch.kind \in {"NoStretch", "Y"} =>
                  transforms[e].width = preTransforms[e].width
            /\ preTransforms[e].stretch.kind \in {"NoStretch", "X"} =>
                  transforms[e].height = preTransforms[e].height

\* A pass has written a new width into a stretched entity and has left the
\* size of an entity without stretch alone.
C29_Witness ==
    /\ runs >= 1
    /\ \E e \in Entities, o \in Entities :
          /\ preTransforms[e].stretch.kind \in {"X", "XY"}
          /\ transforms[e].width # preTransforms[e].width
          /\ Placement(transforms[e]) = Placement(preTransforms[e])
          /\ preTransforms[o].stretch.kind = "NoStretch"
          /\ IsResolved(o)
          /\ transforms[o].width = preTransforms[o].width
          /\ transforms[o].height = preTransforms[o].height
          /\ transforms[o].pixel_x # preTransforms[o].pixel_x

\* The passes after which the forest is said to be settled: the greatest
\* number of parents above an entity, and one pass at least.
PassesNeeded ==
    LET depths == {Depth(parent, e) : e \in Entities}
        deepest == CHOOSE d \in depths : \A o \in depths : o <= d
    IN  IF deepest = 0 THEN 1 ELSE deepest

\* One more pass would write what is there already.
FixedPoint == LayoutResult(transforms, parent, screen_dim) = transforms

\* The resolved values are those of the depth-first pre-order resolution.
EqualsDepthFirst ==
    \A e \in Entities :
        Out(transforms[e]) = Out(DepthFirst(transforms, parent, screen_dim, e))

Positive(x) == IsFinite(x) /\ x[1] > 0

\* The box the entity is stretched against, less its margins on both sides.
Available(e) ==
    LET t == transforms[e]
        box == IF parent[e] \in Entities
               THEN <<transforms[parent[e]].pixel_width,
                      transforms[parent[e]].pixel_height>>
               ELSE screen_dim
    IN  <<RSub(box[1], RMul(t.stretch.x_margin, R(2))),
          RSub(box[2], RMul(t.stretch.y_margin, R(2)))>>

\* Every resolved entity with a keep_aspect_ratio stretch had a positive
\* size when the latest pass began, has one now, and is left a positive
\* size by its margins: the scale of its stretch was positive and finite.
NoneCollapsed ==
    \A e \in Entities :
        (IsResolved(e) /\ KeepsAspect(transforms[e])) =>
            /\ Positive(preTransforms[e].width)
            /\ Positive(preTransforms[e].height)
            /\ Positive(transforms[e].width)
            /\ Positive(transforms[e].height)
            /\ Positive(Available(e)[1])
            /\ Positive(Available(e)[2])

====
